---- MODULE Spec2Model ----
(***************************************************************************)
(* A model of the candlestick chart of crypto-trade-heat: the viewport     *)
(* {startIndex, visibleCount}, the Y-range {autoY, yMin, yMax}, the        *)
(* drag/resize refs of the CandlesCanvas component, the bar sequence held  *)
(* by App and the follow flag.  Every handler of the component is one      *)
(* action; the React re-render that follows a state change (the follow     *)
(* effect of lines 125-134 and the main effect's clamp of line 579) is     *)
(* part of the action that causes it.                                      *)
(*                                                                         *)
(* Numbers: bar indices and pixels are integers.  Prices are JavaScript    *)
(* numbers; they are modelled as exact rationals extended with NaN and the *)
(* two infinities (records [k, n, d]), so that the empty-sequence paths of *)
(* the handlers (Math.max() = -Infinity) are computed as the code computes *)
(* them.  Rounding error of IEEE doubles is not modelled for prices.       *)
(*                                                                         *)
(* Specifications: Spec runs every handler of the chart; SpecNav runs the  *)
(* same handlers without the gestures that change the Y-range; SpecZoom    *)
(* applies performZoomGlobal(s, x) and then performZoomGlobal(1/s, x) to   *)
(* viewports over a longer sequence; SpecPointer runs the wheel and drag   *)
(* handlers with pointer positions around the price-axis area; SpecLive    *)
(* runs the two live streams of App (KlineWebSocket, AggTradeWebSocket)    *)
(* with their messages, the interval select and the history loads;         *)
(* SpecTrades runs aggregateToOneSecondKlines and the live merge of        *)
(* trades; SpecWs runs the socket and timer events of the two subscription *)
(* objects, with the browser's delivery of close events and timers as      *)
(* fairness; SpecMount runs the main effect, its cleanup and the unmount;  *)
(* SpecPan runs pan drags along a horizontal line; SpecSteps runs the      *)
(* commands zoomIn, zoomOut and resetView, with repeated zooms as          *)
(* fairness; SpecRange runs the handlers that write the Y-range on bars    *)
(* of different prices, with the range each draw plots; SpecFetch runs     *)
(* fetchKlinesByTime page by page, with every request answered as          *)
(* fairness; SpecLoads runs the "Go" and "load older" handlers of App      *)
(* across their awaits, with the interval select; SpecScroll runs the      *)
(* kline stream on a full buffer while the user drags the window back.     *)
(***************************************************************************)
EXTENDS Integers, Sequences, FiniteSets, TLC

(* ------------------------------------------------------------------ *)
(* Program constants                                                    *)
(* ------------------------------------------------------------------ *)
PADDING_LEFT == 10
PADDING_RIGHT == 60
PADDING_TOP == 10
PADDING_BOTTOM == 24
Width == 900
Height == 480
CandleGap == 2
MinVisible == 10
MaxVisible == 5000
InitMinVisible == 20
InitMaxVisible == 120
MaxBuffer == 2000

(* ------------------------------------------------------------------ *)
(* Bounds of the model                                                  *)
(* ------------------------------------------------------------------ *)
\* the longest bar sequence the model builds
MaxLen == 13
\* the number of Y-range gestures (vertical wheel zooms, vertical pans,
\* resize drags) in one run
MaxYOps == 1
\* the length of the fixed sequence of the zoom round-trip specification
RTLen == 60
\* the sockets of one subscription that this.ws no longer refers to and that
\* have not fired their close event yet
MaxOld == 2
\* the live messages of one run
MaxMsgs == 2
\* the trades of one aggregation, loaded and delivered
MaxTrades == 3
\* the longest sequence "load older" is applied to
MaxOlderLen == 4
\* the reconnects of one subscription that are counted (the count stays at
\* this number when more follow)
MaxReconnects == 2

(* ------------------------------------------------------------------ *)
(* Integer helpers                                                      *)
(* ------------------------------------------------------------------ *)
Max(a, b) == IF a >= b THEN a ELSE b
Min(a, b) == IF a <= b THEN a ELSE b
Abs(a) == IF a < 0 THEN -a ELSE a

\* Math.floor(n / d) for an integer n and d > 0
FloorDiv(n, d) == n \div d

\* Math.round(n / d) for integers n and d > 0: JavaScript rounds a half
\* towards +Infinity, Math.round(x) = floor(x + 1/2)
RoundDiv(n, d) == (2 * n + d) \div (2 * d)

RECURSIVE GCD(_, _)
GCD(a, b) == IF b = 0 THEN a ELSE GCD(b, a % b)

(* ------------------------------------------------------------------ *)
(* JavaScript numbers: rationals, NaN, +Infinity, -Infinity, and null   *)
(* ------------------------------------------------------------------ *)
JNull == [k |-> "null", n |-> 0, d |-> 1]
JNaN == [k |-> "nan", n |-> 0, d |-> 1]
JPInf == [k |-> "pinf", n |-> 0, d |-> 1]
JNInf == [k |-> "ninf", n |-> 0, d |-> 1]

\* the number n/d (d # 0), normalised
JNum(n, d) ==
  LET s == IF d < 0 THEN -1 ELSE 1
      g == GCD(Abs(n), Abs(d))
  IN [k |-> "num", n |-> (s * n) \div g, d |-> (s * d) \div g]

JInt(i) == JNum(i, 1)

JIsInf(a) == a.k \in {"pinf", "ninf"}
JSign(a) ==
  CASE a.k = "pinf" -> 1
    [] a.k = "ninf" -> -1
    [] a.k = "num" -> IF a.n > 0 THEN 1 ELSE IF a.n < 0 THEN -1 ELSE 0
    [] OTHER -> 0
JInfOfSign(s) == IF s > 0 THEN JPInf ELSE JNInf

JNeg(a) ==
  CASE a.k = "num" -> JNum(-a.n, a.d)
    [] a.k = "pinf" -> JNInf
    [] a.k = "ninf" -> JPInf
    [] OTHER -> JNaN

JAdd(a, b) ==
  CASE a.k = "nan" \/ b.k = "nan" -> JNaN
    [] a.k = "num" /\ b.k = "num" -> JNum(a.n * b.d + b.n * a.d, a.d * b.d)
    [] a.k = "num" -> b
    [] b.k = "num" -> a
    [] a.k = b.k -> a
    [] OTHER -> JNaN

JSub(a, b) == JAdd(a, JNeg(b))

JMul(a, b) ==
  CASE a.k = "nan" \/ b.k = "nan" -> JNaN
    [] a.k = "num" /\ b.k = "num" -> JNum(a.n * b.n, a.d * b.d)
    [] JSign(a) = 0 \/ JSign(b) = 0 -> JNaN
    [] OTHER -> JInfOfSign(JSign(a) * JSign(b))

JDiv(a, b) ==
  CASE a.k = "nan" \/ b.k = "nan" -> JNaN
    [] a.k = "num" /\ b.k = "num" ->
         IF b.n # 0 THEN JNum(a.n * b.d, a.d * b.n)
         ELSE IF a.n = 0 THEN JNaN ELSE JInfOfSign(JSign(a))
    [] JIsInf(a) /\ JIsInf(b) -> JNaN
    [] JIsInf(a) -> JInfOfSign(JSign(a) * (IF JSign(b) < 0 THEN -1 ELSE 1))
    [] OTHER -> JInt(0)

RECURSIVE FracLe(_, _, _, _)
\* n1/d1 <= n2/d2 for d1, d2 > 0, by integer parts and then the reciprocals
\* of the fractional parts (no product of a numerator and a denominator)
FracLe(n1, d1, n2, d2) ==
  LET q1 == n1 \div d1
      q2 == n2 \div d2
      r1 == n1 % d1
      r2 == n2 % d2
  IN IF q1 # q2 THEN q1 < q2
     ELSE IF r1 = 0 THEN TRUE
     ELSE IF r2 = 0 THEN FALSE
     ELSE FracLe(d2, r2, d1, r1)

\* a <= b; every comparison with NaN is false
JLe(a, b) ==
  CASE a.k = "nan" \/ b.k = "nan" -> FALSE
    [] a.k = "num" /\ b.k = "num" -> FracLe(a.n, a.d, b.n, b.d)
    [] a.k = "ninf" \/ b.k = "pinf" -> TRUE
    [] OTHER -> FALSE

JLt(a, b) ==
  CASE a.k = "nan" \/ b.k = "nan" -> FALSE
    [] a.k = "num" /\ b.k = "num" -> a # b /\ FracLe(a.n, a.d, b.n, b.d)
    [] a.k = b.k -> FALSE
    [] a.k = "ninf" \/ b.k = "pinf" -> TRUE
    [] OTHER -> FALSE

\* Math.max(a, b) and Math.min(a, b)
JMax(a, b) ==
  IF a.k = "nan" \/ b.k = "nan" THEN JNaN ELSE IF JLe(a, b) THEN b ELSE a
JMin(a, b) ==
  IF a.k = "nan" \/ b.k = "nan" THEN JNaN ELSE IF JLe(a, b) THEN a ELSE b

\* x || 1 : 0 and NaN are falsy
JOrOne(x) ==
  IF x.k = "nan" \/ (x.k = "num" /\ x.n = 0) THEN JInt(1) ELSE x

\* a ?? b
Coalesce(a, b) == IF a.k = "null" THEN b ELSE a

\* the literal 1e-9
Epsilon == JNum(1, 1000000000)

(* ------------------------------------------------------------------ *)
(* Bars                                                                 *)
(* ------------------------------------------------------------------ *)
\* The open time of the i-th bar the exchange has: one bar every 100 ms,
\* with a gap after every fifth bar (100, 200, 300, 400, 600, ...).
OpenTimeAt(i) == 100 * i + 100 * (i \div 5)

\* the Kline record of mapArrayToKline / the kline stream, for bar i
MkBar(i) ==
  [openTime |-> OpenTimeAt(i),
   open |-> 104,
   high |-> 110,
   low |-> 100,
   close |-> 106,
   volume |-> 1,
   numberOfTrades |-> 1 + (i % 4)]

\* the result of a history load that returns the first n bars
History(n) == [i \in 1..n |-> MkBar(i)]

\* fetchKlinesByTime before any call: pc is where the call stands ("idle",
\* "waiting" for the response of a request, "done" when it returned,
\* "failed" when it threw), cursor, endMs and all are its locals, reqs the
\* startTime of every request it sent and pages the chunks it received;
\* listed is the number of bars the exchange has, stale the number of
\* responses so far that repeated the first one; interval is the argument
\* of the call and given whether the caller's await has resumed
NoFetch ==
  [pc |-> "idle", cursor |-> 0, endMs |-> 0, all |-> << >>, reqs |-> << >>,
   pages |-> << >>, listed |-> 0, stale |-> 0, interval |-> "",
   given |-> FALSE]

\* no "load older" request in progress: busy is whether one is, interval the
\* selection it was clicked under, first the openTime of data[0] at the
\* click, n the number of clicks so far
NoOlder == [busy |-> FALSE, interval |-> "", first |-> 0, n |-> 0]

(* ------------------------------------------------------------------ *)
(* State                                                                *)
(* ------------------------------------------------------------------ *)
VARIABLES
  data,                  \* App: const [data, setData]
  follow,                \* App: const [follow, setFollow]
  startIndex,            \* startIndexRef
  visibleCount,          \* visibleCountRef
  autoY,                 \* autoYRef
  yMin,                  \* yMinRef
  yMax,                  \* yMaxRef
  isDragging,            \* isDraggingRef
  isResizingY,           \* isResizingYRef
  lastX,                 \* lastXRef
  lastMouseY,            \* lastMouseYRef
  pan,                   \* history: where the drag started, and its clamps
  resizeAnchorY,         \* resizeAnchorYRef
  resizeAnchorPrice,     \* resizeAnchorPriceRef
  resizeInitialRange,    \* resizeInitialRangeRef
  resizeStartMouseY,     \* resizeStartMouseYRef
  resizeAnchorTopRatio,  \* resizeAnchorTopRatioRef
  grabbed,               \* history: minPrice and maxPrice at the resize start
  last,                  \* history: the handler that ran last and its inputs
  hadData,               \* history: the sequence has been non-empty before
  yOps,                  \* history: Y-range gestures so far
  rt,                    \* state of the zoom round-trip specification
  interval,              \* App: const [interval, setInterval]
  sub,                   \* the KlineWebSocket and the AggTradeWebSocket object
  trades,                \* the trades given to the 1-second aggregation
  agg,                   \* the bars aggregateToOneSecondKlines returned
  now,                   \* the exchange's time (ms) of the latest live message
  msgs,                  \* history: live messages delivered so far
  fetch,                 \* fetchKlinesByTime: the call in progress, or the last one
  older,                 \* App: the "load older" request in progress, if any
  listeners,             \* the event listeners attached to the canvas and window
  plot                   \* the canvas: minPrice and maxPrice of the last draw()
                         \* (in the specifications that watch the canvas)

viewVars == <<startIndex, visibleCount>>
yVars == <<autoY, yMin, yMax>>
dragVars == <<isDragging, isResizingY, lastX, lastMouseY, pan>>
resizeVars == <<resizeAnchorY, resizeAnchorPrice, resizeInitialRange,
                resizeStartMouseY, resizeAnchorTopRatio, grabbed>>
liveVars == <<interval, sub, trades, agg, now, msgs, fetch, older>>
vars == <<data, follow, startIndex, visibleCount, autoY, yMin, yMax,
          isDragging, isResizingY, lastX, lastMouseY, pan, resizeAnchorY,
          resizeAnchorPrice, resizeInitialRange, resizeStartMouseY,
          resizeAnchorTopRatio, grabbed, last, hadData, yOps, rt, liveVars, plot,
          listeners>>

PlotWidth == Width - PADDING_LEFT - PADDING_RIGHT
PlotHeight == Height - PADDING_TOP - PADDING_BOTTOM

(* ------------------------------------------------------------------ *)
(* Viewport helpers                                                     *)
(* ------------------------------------------------------------------ *)
\* useRef initial value of visibleCountRef, and resetView
InitialVisible(L) == Min(InitMaxVisible, Max(InitMinVisible, L))

\* clampViewportLocal, first assignment
ClampVisible(L, vc) == Max(MinVisible, Min(L, vc))

\* a variant of ClampStart without the lower limit 0
ClampStartNoFloor(L, visible, start) == Min(L - visible, start)

\* clampViewportLocal, second assignment (visible is the clamped count)
ClampStart(L, visible, start) == Max(0, Min(L - visible, start))

\* candleWidth + candleGap for a visible count
CandleSpan(vc) == Max(1, FloorDiv(PlotWidth, vc) - CandleGap) + CandleGap

\* a variant of AtEnd with Math.min for Math.max
AtEndMin(start, vc, L) == start + vc >= Min(vc, L - 1)

\* the follow-live effect: atEnd
AtEnd(start, vc, L) == start + vc >= Max(vc, L - 1)

\* a variant of FollowStart that looks at the follow flag only
FollowStartFlagOnly(fl, start, vc, L) ==
  IF fl THEN Max(0, L - vc) ELSE start

\* the follow-live effect: startIndexRef after the effect ran
FollowStart(fl, start, vc, L) ==
  IF fl \/ AtEnd(start, vc, L) THEN Max(0, L - vc) ELSE start

\* data.slice(startIndex, endIndex) of draw and of the pointer handlers
ViewData(d, start, vc) ==
  LET visible == Max(MinVisible, Min(Len(d), vc))
      endIndex == Min(Len(d), start + visible)
  IN IF start >= endIndex THEN << >> ELSE SubSeq(d, start + 1, endIndex)

\* the price x of a bar as a JavaScript number; the live model writes the
\* number NaN as -1
JPrice(x) == IF x < 0 THEN JNaN ELSE JInt(x)

\* Math.max(...highs): -Infinity for an empty slice, NaN when a high is NaN
MaxHigh(view) ==
  LET highs == {view[i].high : i \in DOMAIN view}
  IN IF highs = {} THEN JNInf
     ELSE IF \E h \in highs : h < 0 THEN JNaN
     ELSE JPrice(CHOOSE h \in highs : \A g \in highs : g <= h)

\* Math.min(...lows): +Infinity for an empty slice, NaN when a low is NaN
MinLow(view) ==
  LET lows == {view[i].low : i \in DOMAIN view}
  IN IF lows = {} THEN JPInf
     ELSE IF \E l \in lows : l < 0 THEN JNaN
     ELSE JPrice(CHOOSE l \in lows : \A g \in lows : l <= g)

\* the price bounds the pointer handlers derive before they change the range
PriceBounds(d, start, vc, ymin, ymax) ==
  LET view == ViewData(d, start, vc)
      minPrice == Coalesce(ymin, MinLow(view))
      maxPrice0 == Coalesce(ymax, MaxHigh(view))
      maxPrice == IF JLe(maxPrice0, minPrice) THEN JAdd(minPrice, Epsilon)
                  ELSE maxPrice0
  IN [min |-> minPrice, max |-> maxPrice]

\* the canvas after clearRect
NoPlot == [min |-> JNull, max |-> JNull]

\* a variant of DrawRange without the padding of the automatic range
DrawRangeNoPad(d, start, vc, auto, ymin, ymax) ==
  LET view == ViewData(d, start, vc)
  IN IF Len(d) = 0 THEN NoPlot
     ELSE IF ~auto /\ ymin.k # "null" /\ ymax.k # "null"
          THEN [min |-> ymin,
                max |-> IF JLe(ymax, ymin) THEN JAdd(ymin, Epsilon) ELSE ymax]
          ELSE [min |-> MinLow(view), max |-> MaxHigh(view)]

\* draw(): minPrice and maxPrice, the price range it plots
DrawRange(d, start, vc, auto, ymin, ymax) ==
  LET view == ViewData(d, start, vc)
      dataMax == MaxHigh(view)
      dataMin == MinLow(view)
      pad == JOrOne(JMul(JSub(dataMax, dataMin), JNum(1, 20)))
  IN IF Len(d) = 0 THEN NoPlot
     ELSE IF ~auto /\ ymin.k # "null" /\ ymax.k # "null"
          THEN [min |-> ymin,
                max |-> IF JLe(ymax, ymin) THEN JAdd(ymin, Epsilon) ELSE ymax]
          ELSE [min |-> JSub(dataMin, pad), max |-> JAdd(dataMax, pad)]

\* the value of plot in the specifications that do not watch the canvas:
\* nothing the handlers do reads the canvas back
Unwatched == [min |-> JNull, max |-> JNull, watched |-> FALSE]

\* the canvas after a draw()
Drawn(d, start, vc, auto, ymin, ymax) ==
  IF plot = Unwatched THEN plot ELSE DrawRange(d, start, vc, auto, ymin, ymax)

\* the handler ends with draw(), on the refs it has written
Draw ==
  plot' = Drawn(data', startIndex', visibleCount', autoY', yMin', yMax')

(* ------------------------------------------------------------------ *)
(* Horizontal zoom                                                      *)
(* ------------------------------------------------------------------ *)
\* the scale factors the callers pass, as exact fractions
Scale085 == [num |-> 17, den |-> 20]
Scale115 == [num |-> 23, den |-> 20]

\* scale * modifier of handleWheel
WheelScale(zoomOut, shiftKey, ctrlKey) ==
  CASE zoomOut /\ shiftKey -> [num |-> 621, den |-> 400]
    [] ~zoomOut /\ shiftKey -> [num |-> 459, den |-> 400]
    [] zoomOut /\ ctrlKey -> [num |-> 207, den |-> 200]
    [] ~zoomOut /\ ctrlKey -> [num |-> 153, den |-> 200]
    [] zoomOut -> Scale115
    [] OTHER -> Scale085

\* The visible counts v <= 5000 for which v * 1.15 is an exact half in the
\* rationals and the double product falls below it, so Math.round goes down.
HalfDown115 ==
  {50, 90, 110, 170, 190, 210, 330, 350, 370, 390, 410, 430, 650, 670, 690,
   710, 730, 750, 770, 790, 810, 830, 850, 870, 890, 1290, 1310, 1330, 1350,
   1370, 1390, 1410, 1430, 1450, 1470, 1490, 1510, 1530, 1550, 1570, 1590,
   1610, 1630, 1650, 1670, 1690, 1710, 1730, 1750, 1770, 2570, 2590, 2610,
   2630, 2650, 2670, 2690, 2710, 2730, 2750, 2770, 2790, 2810, 2830, 2850,
   2870, 2890, 2910, 2930, 2950, 2970, 2990, 3010, 3030, 3050, 3070, 3090,
   3110, 3130, 3150, 3170, 3190, 3210, 3230, 3250, 3270, 3290, 3310, 3330,
   3350, 3370, 3390, 3410, 3430, 3450, 3470, 3490, 3510, 3530, 3550}

\* the same for the double 1.15 * 0.9
HalfDown1035 ==
  {100, 900, 1500, 1700, 1900, 2900, 3100, 3300, 3500, 3700, 3900}

\* a variant of ScaleRound with Math.floor for Math.round
ScaleFloor(v, sc) == FloorDiv(v * sc.num, sc.den)

\* Math.round(oldVisible * scale), as the double arithmetic gives it
ScaleRound(v, sc) ==
  RoundDiv(v * sc.num, sc.den)
    - (IF (sc = Scale115 /\ v \in HalfDown115)
          \/ (sc = [num |-> 207, den |-> 200] /\ v \in HalfDown1035)
       THEN 1 ELSE 0)

\* the anchor pixel of performZoomGlobal; anchorX = -1 stands for undefined
ZoomAnchor(anchorX) ==
  Max(PADDING_LEFT,
      Min(Width - PADDING_RIGHT,
          IF anchorX = -1 THEN PADDING_LEFT + FloorDiv(PlotWidth, 2)
          ELSE anchorX))

\* startIndex + Math.round((anchor - leftPad) / span): the bar under the anchor
IdxAtAnchor(start, vc, anchor) ==
  start + RoundDiv(anchor - PADDING_LEFT, CandleSpan(vc))

\* a variant of ZoomRaw that derives newStart from the old candle span
ZoomRawOldSpan(start, vc, sc, anchorX) ==
  LET anchor == ZoomAnchor(anchorX)
      idxAtAnchor == IdxAtAnchor(start, vc, anchor)
      newVisible == Max(MinVisible, Min(MaxVisible, ScaleRound(vc, sc)))
      oldSpan == CandleSpan(vc)
      newStart == RoundDiv(idxAtAnchor * oldSpan - (anchor - PADDING_LEFT),
                           oldSpan)
  IN [visibleCount |-> newVisible, startIndex |-> newStart]

\* performZoomGlobal up to (not including) the final clampViewportLocal:
\* the new visibleCountRef and the newStart written to startIndexRef
\* a variant of ZoomRaw with the limits 10 and 5000 exchanged
ZoomRawLimitsExchanged(start, vc, sc, anchorX) ==
  LET anchor == ZoomAnchor(anchorX)
      idxAtAnchor == IdxAtAnchor(start, vc, anchor)
      newVisible == Min(MinVisible, Max(MaxVisible, ScaleRound(vc, sc)))
      newSpan == CandleSpan(newVisible)
      newStart == RoundDiv(idxAtAnchor * newSpan - (anchor - PADDING_LEFT),
                           newSpan)
  IN [visibleCount |-> newVisible, startIndex |-> newStart]

ZoomRaw(start, vc, sc, anchorX) ==
  LET anchor == ZoomAnchor(anchorX)
      idxAtAnchor == IdxAtAnchor(start, vc, anchor)
      newVisible == Max(MinVisible, Min(MaxVisible, ScaleRound(vc, sc)))
      newSpan == CandleSpan(newVisible)
      \* Math.round(idxAtAnchor - (anchor - leftPad) / newSpan)
      newStart == RoundDiv(idxAtAnchor * newSpan - (anchor - PADDING_LEFT),
                           newSpan)
  IN [visibleCount |-> newVisible, startIndex |-> newStart]

\* performZoomGlobal: the viewport after the zoom and its clamp
PerformZoomGlobal(start, vc, L, sc, anchorX) ==
  LET raw == ZoomRaw(start, vc, sc, anchorX)
      visible == ClampVisible(L, raw.visibleCount)
  IN [visibleCount |-> visible,
      startIndex |-> ClampStart(L, visible, raw.startIndex)]

(* ------------------------------------------------------------------ *)
(* Time-range lookup                                                    *)
(* ------------------------------------------------------------------ *)
RECURSIVE SearchFirstGELe(_, _, _, _)
\* a variant of SearchFirstGE that compares with <= (it passes over a bar
\* whose openTime is startMs)
SearchFirstGELe(d, ms, lo, hi) ==
  IF lo > hi THEN lo
  ELSE LET mid == (lo + hi) \div 2
       IN IF d[mid + 1].openTime <= ms THEN SearchFirstGELe(d, ms, mid + 1, hi)
          ELSE SearchFirstGELe(d, ms, lo, mid - 1)

RECURSIVE SearchFirstGE(_, _, _, _)
\* the first while loop of setRangeByTime (openTime < startMs goes right);
\* its value is lo when the loop ends.  Indices are 0-based as in the code.
SearchFirstGE(d, ms, lo, hi) ==
  IF lo > hi THEN lo
  ELSE LET mid == (lo + hi) \div 2
       IN IF d[mid + 1].openTime < ms THEN SearchFirstGE(d, ms, mid + 1, hi)
          ELSE SearchFirstGE(d, ms, lo, mid - 1)

RECURSIVE SearchFirstGT(_, _, _, _)
\* the second while loop of setRangeByTime (openTime <= endMs goes right)
SearchFirstGT(d, ms, lo, hi) ==
  IF lo > hi THEN lo
  ELSE LET mid == (lo + hi) \div 2
       IN IF d[mid + 1].openTime <= ms THEN SearchFirstGT(d, ms, mid + 1, hi)
          ELSE SearchFirstGT(d, ms, lo, mid - 1)

\* a variant of RangeIsNoOp that lets an empty interval (endMs = startMs)
\* through
RangeIsNoOpStrict(d, startMs, endMs) == Len(d) = 0 \/ endMs < startMs

\* the guard of setRangeByTime: the call returns at once
RangeIsNoOp(d, startMs, endMs) == Len(d) = 0 \/ endMs <= startMs

\* a variant of RangeViewport that writes startIdx without the limit
\* length - count
RangeViewportNoLimit(d, startMs, endMs) ==
  LET L == Len(d)
      startIdx == Min(Max(0, SearchFirstGE(d, startMs, 0, L - 1)), L - 1)
      endIdx == Min(Max(0, SearchFirstGT(d, endMs, 0, L - 1) - 1), L - 1)
      count == Max(MinVisible, endIdx - startIdx + 1)
  IN [visibleCount |-> count, startIndex |-> Max(0, startIdx)]

\* a variant of RangeViewport that limits startIdx by the count the viewport
\* had before the call
RangeViewportOldCount(d, startMs, endMs) ==
  LET L == Len(d)
      startIdx == Min(Max(0, SearchFirstGE(d, startMs, 0, L - 1)), L - 1)
      endIdx == Min(Max(0, SearchFirstGT(d, endMs, 0, L - 1) - 1), L - 1)
      count == Max(MinVisible, endIdx - startIdx + 1)
  IN [visibleCount |-> count,
      startIndex |-> Max(0, Min(startIdx, Max(0, L - visibleCount)))]

\* the viewport setRangeByTime writes for a non-empty d and endMs > startMs
RangeViewport(d, startMs, endMs) ==
  LET L == Len(d)
      startIdx == Min(Max(0, SearchFirstGE(d, startMs, 0, L - 1)), L - 1)
      endIdx == Min(Max(0, SearchFirstGT(d, endMs, 0, L - 1) - 1), L - 1)
      count == Max(MinVisible, endIdx - startIdx + 1)
  IN [visibleCount |-> count,
      startIndex |-> Max(0, Min(startIdx, Max(0, L - count)))]

(* ------------------------------------------------------------------ *)
(* Inputs                                                               *)
(* ------------------------------------------------------------------ *)
\* the lengths of the sequences a history load returns
HistoryLens == {0, 4, 12}
\* the (startMs, endMs) given to setRangeByTime: a range between open times,
\* one whose ends are open times, one that reaches past the last bar, an
\* empty interval and a reversed one
RangeArgs ==
  {<<150, 350>>, <<200, 1500>>, <<1000, 1700>>, <<350, 350>>, <<1700, 150>>}
\* pointer positions: 860 lies in the right price-axis gutter (x >= 840),
\* y = 10 is the top of the plot and y = 233 its vertical centre
WheelXs == {100, 860}
WheelYs == {233}
DownAt == {<<300, 233>>, <<860, 233>>}
MoveTo == {<<100, 233>>, <<300, 10>>}
Modifiers == {"none", "shift", "ctrl", "alt"}
NoScale == [num |-> 1, den |-> 1]

NavOps == {"setRangeByTime", "scrollToEnd", "resetView", "resetY"}

\* the record of the handler that ran: its name, its inputs a and b (the two
\* times of a setRangeByTime; for a kline update a is the growth of the
\* sequence; for a live message a is 1 when the handler passed it on to the
\* App and b is 1 when it was well-formed; for an event of a subscription a
\* is the number of its stream; 0 for the others), and for a navigation
\* command whether the same call was also the previous one
Ran(op, a, b) ==
  [op |-> op, a |-> a, b |-> b,
   rep |-> op \in NavOps /\ last.op = op /\ last.a = a /\ last.b = b]

(* ------------------------------------------------------------------ *)
(* Live subscriptions: KlineWebSocket and AggTradeWebSocket             *)
(* ------------------------------------------------------------------ *)
\* The two classes have the same start, stop, connect, onclose, onerror and
\* scheduleReconnect; sub[c] is the object of stream c.  ws is the readyState
\* of the socket this.ws refers to ("none" for undefined), old the number of
\* sockets the object created earlier that have not closed yet, live the
\* number of those that were open when connect() replaced them (nothing has
\* called close() on them: they go on delivering), n the number of
\* connections the reconnect timer has made.
Streams == {"kline", "trade"}
StreamNo(c) == IF c = "kline" THEN 1 ELSE 2
LiveSocket == {"connecting", "open", "closing"}

\* the object as constructed
NewSub ==
  [stopped |-> FALSE, timer |-> FALSE, ws |-> "none", old |-> 0, live |-> 0,
   n |-> 0]

\* connect(): this.ws = new WebSocket(url); a socket this.ws referred to
\* stays alive without a reference
Connect(s) ==
  [s EXCEPT !.ws = "connecting",
            !.old = IF s.ws \in LiveSocket THEN s.old + 1 ELSE s.old,
            !.live = IF s.ws = "open" THEN s.live + 1 ELSE s.live]

\* start()
StartSub(s) == Connect([s EXCEPT !.stopped = FALSE])

\* a variant of StopSub that leaves the reconnect timer pending
StopSubKeepsTimer(s) ==
  [s EXCEPT !.stopped = TRUE,
            !.ws = "none",
            !.old = IF s.ws \in LiveSocket THEN s.old + 1 ELSE s.old]

\* stop(): the socket is closed (its close event comes later) and forgotten,
\* the timer is cleared
StopSub(s) ==
  [s EXCEPT !.stopped = TRUE,
            !.ws = "none",
            !.old = IF s.ws \in LiveSocket THEN s.old + 1 ELSE s.old,
            !.timer = FALSE]

\* scheduleReconnect()
ScheduleReconnect(s) == IF s.timer THEN s ELSE [s EXCEPT !.timer = TRUE]

\* a variant of OnClose with the test of stopped inverted
OnCloseInverted(s) == IF ~s.stopped THEN s ELSE ScheduleReconnect(s)

\* ws.onclose
OnClose(s) == IF s.stopped THEN s ELSE ScheduleReconnect(s)

\* ws.onerror: this.ws?.close()
OnError(s) ==
  [s EXCEPT !.ws = IF s.ws \in {"connecting", "open"} THEN "closing" ELSE s.ws]

\* the callback of the reconnect timer
TimerCallback(s) ==
  LET s1 == [s EXCEPT !.timer = FALSE]
  IN IF ~s1.stopped
     THEN [Connect(s1) EXCEPT !.n = Min(s1.n + 1, MaxReconnects)]
     ELSE s1

\* App after mount: interval = "1m", so the live effect has constructed and
\* started a KlineWebSocket; there is no AggTradeWebSocket yet
InitLive ==
  /\ interval = "1m"
  /\ sub = [c \in Streams |-> IF c = "kline" THEN StartSub(NewSub) ELSE NewSub]
  /\ trades = << >>
  /\ agg = << >>
  /\ now = 0
  /\ msgs = 0
  /\ fetch = NoFetch
  /\ older = NoOlder

(* ------------------------------------------------------------------ *)
(* Re-render after a change of App state                                *)
(* ------------------------------------------------------------------ *)
\* The viewport after React re-rendered CandlesCanvas with newData and
\* newFollow, from refs (start, vc): the follow effect runs when data.length
\* or followLive changed, then the main effect (clamp and draw) runs when
\* the data array is a new one (dataNew).
Rerendered(newData, dataNew, newFollow, start, vc) ==
  LET L == Len(newData)
      s1 == IF L # Len(data) \/ newFollow # follow
            THEN FollowStart(newFollow, start, vc, L) ELSE start
      visible == ClampVisible(L, vc)
  IN IF dataNew
     THEN [visibleCount |-> visible, startIndex |-> ClampStart(L, visible, s1)]
     ELSE [visibleCount |-> vc, startIndex |-> s1]

(* ------------------------------------------------------------------ *)
(* Event listeners of the main effect                                   *)
(* ------------------------------------------------------------------ *)
\* the listeners one run of the main effect adds: target, event type and
\* handler function; inst tells the closures of one run from another's
Handlers(inst) ==
  {[target |-> "canvas", type |-> "wheel", fn |-> "handleWheel",
    inst |-> inst],
   [target |-> "canvas", type |-> "mousedown", fn |-> "handleMouseDown",
    inst |-> inst],
   [target |-> "window", type |-> "mousemove", fn |-> "handleMouseMove",
    inst |-> inst],
   [target |-> "window", type |-> "mouseup", fn |-> "handleMouseUp",
    inst |-> inst],
   [target |-> "canvas", type |-> "mouseleave", fn |-> "handleMouseUp",
    inst |-> inst]}

\* the run of the main effect whose cleanup is pending: the latest
Latest(ls) ==
  IF ls = {} THEN 0
  ELSE CHOOSE i \in {l.inst : l \in ls} : \A l \in ls : l.inst <= i

\* a variant of CleanedUp in which removeEventListener("wheel", ...) does
\* not match the listener added with the options {passive: false}
CleanedUpButWheel(ls) ==
  ls \ {l \in Handlers(Latest(ls)) : l.type # "wheel"}

\* the cleanup of the main effect: removeEventListener of the five
\* (target, type, handler) of its run
CleanedUp(ls) == ls \ Handlers(Latest(ls))

\* addEventListener of the five handlers of a new run; a (target, type,
\* handler) already in the list is not added again
Registered(ls) == ls \cup Handlers(Latest(ls) + 1)

\* the event type reaches a handler
Attached(type) == \E l \in listeners : l.type = type

(* ------------------------------------------------------------------ *)
(* Initial state: App mounts the chart with data = [] and follow = true *)
(* ------------------------------------------------------------------ *)
Mounted(d, fl) ==
  LET L == Len(d)
      vc0 == InitialVisible(L)
      s1 == FollowStart(fl, 0, vc0, L)
      visible == ClampVisible(L, vc0)
  IN [visibleCount |-> visible, startIndex |-> ClampStart(L, visible, s1)]

\* pan outside a drag: x and start are the pointer's x and the startIndex at
\* the pointer-down, free tells that no clamp has changed a startIndex
\* computed by a move of the drag.  The history is kept where rec is set
\* (the specification of the pan drag).
NoPan == [rec |-> FALSE, x |-> 0, start |-> 0, free |-> TRUE]

\* the refs of a new component; ops is the count of Y gestures the run starts
\* from and rec tells whether the history of the pan drag is kept
InitRefsWith(ops, rec) ==
  /\ autoY = TRUE
  /\ yMin = JNull
  /\ yMax = JNull
  /\ isDragging = FALSE
  /\ isResizingY = FALSE
  /\ lastX = 0
  /\ lastMouseY = 0
  /\ pan = [NoPan EXCEPT !.rec = rec]
  /\ resizeAnchorY = 0
  /\ resizeAnchorPrice = JInt(0)
  /\ resizeInitialRange = JInt(0)
  /\ resizeStartMouseY = 0
  /\ resizeAnchorTopRatio = JNum(1, 2)
  /\ grabbed = [min |-> JNull, max |-> JNull]
  /\ yOps = ops

InitRefs == InitRefsWith(0, FALSE)

\* rt before the first zoom of a round trip: phase counts the zooms made, sc
\* and x are the scale and anchor pixel of the first one, vc0 and idx0 the
\* visible count and the bar index under the anchor before it, idxPrev the
\* index under the anchor before the latest zoom, freeLast whether the
\* latest zoom was left as computed by every clamp, freeAll whether all were
NoRT == [phase |-> 0, sc |-> NoScale, x |-> 0, vc0 |-> 0, idx0 |-> 0,
         idxPrev |-> 0, freeLast |-> TRUE, freeAll |-> TRUE]

Init ==
  /\ data = << >>
  /\ follow = TRUE
  /\ visibleCount = Mounted(<< >>, TRUE).visibleCount
  /\ startIndex = Mounted(<< >>, TRUE).startIndex
  /\ InitRefs
  /\ last = [op |-> "mount", a |-> 0, b |-> 0, rep |-> FALSE]
  /\ hadData = FALSE
  /\ rt = NoRT
  /\ InitLive
  /\ plot = Unwatched
  /\ listeners = Registered({})

(* ------------------------------------------------------------------ *)
(* App: changes of the bar sequence and of the follow flag              *)
(* ------------------------------------------------------------------ *)
\* the setData updater of the kline stream
KlineMerge(prev, k) ==
  IF Len(prev) = 0 THEN <<k>>
  ELSE IF k.openTime = prev[Len(prev)].openTime
       THEN Append(SubSeq(prev, 1, Len(prev) - 1), k)
       ELSE LET next == Append(prev, k)
            IN IF Len(next) > MaxBuffer THEN Tail(next) ELSE next

\* the bars the kline stream can deliver next: an update of the bar in
\* progress (same openTime as the last bar) or the bar after it
StreamBars(d) ==
  {MkBar(Len(d) + 1)} \cup (IF Len(d) > 0 THEN {d[Len(d)]} ELSE {})

\* history: the sequence was non-empty before the handler that ran last
Seen == hadData' = (hadData \/ Len(data) > 0)

\* App state changed to (newData, newFollow): CandlesCanvas re-renders
Rerender(newData, dataNew, newFollow) ==
  LET v == Rerendered(newData, dataNew, newFollow, startIndex, visibleCount)
  IN /\ data' = newData
     /\ follow' = newFollow
     /\ visibleCount' = v.visibleCount
     /\ startIndex' = v.startIndex
     /\ Seen
     /\ IF dataNew
        THEN plot' = Drawn(newData, v.startIndex, v.visibleCount, autoY,
                           yMin, yMax)
        ELSE UNCHANGED plot
     /\ listeners' = IF dataNew THEN Registered(CleanedUp(listeners))
                     ELSE listeners

\* a history load resolves: setData(kl)
SetData(n) ==
  /\ Rerender(History(n), TRUE, follow)
  /\ last' = Ran("setData", 0, 0)
  /\ UNCHANGED <<yVars, dragVars, resizeVars, yOps, rt, liveVars>>

\* the kline stream delivers k: setData(prev => merge(prev, k))
KlineUpdate(k) ==
  /\ Len(KlineMerge(data, k)) <= MaxLen
  /\ Rerender(KlineMerge(data, k), TRUE, follow)
  /\ last' = Ran("klineUpdate", Len(KlineMerge(data, k)) - Len(data), 0)
  /\ UNCHANGED <<yVars, dragVars, resizeVars, yOps, rt, liveVars>>

\* the "Follow live" checkbox: setFollow(e.target.checked)
ToggleFollow ==
  /\ Rerender(data, FALSE, ~follow)
  /\ last' = Ran("toggleFollow", 0, 0)
  /\ UNCHANGED <<yVars, dragVars, resizeVars, yOps, rt, liveVars>>

(* ------------------------------------------------------------------ *)
(* Command surface                                                      *)
(* ------------------------------------------------------------------ *)
SetRangeByTime(startMs, endMs) ==
  /\ IF RangeIsNoOp(data, startMs, endMs)
     THEN UNCHANGED viewVars
     ELSE /\ visibleCount' = RangeViewport(data, startMs, endMs).visibleCount
          /\ startIndex' = RangeViewport(data, startMs, endMs).startIndex
  /\ last' = Ran("setRangeByTime", startMs, endMs)
  /\ Seen
  /\ UNCHANGED <<data, follow, yVars, dragVars, resizeVars, yOps, rt, listeners, liveVars>>
  /\ IF RangeIsNoOp(data, startMs, endMs) THEN UNCHANGED plot ELSE Draw

ScrollToEnd ==
  /\ startIndex' = Max(0, Len(data) - visibleCount)
  /\ last' = Ran("scrollToEnd", 0, 0)
  /\ Seen
  /\ UNCHANGED <<data, follow, visibleCount, yVars, dragVars, resizeVars,
                 yOps, rt, listeners, liveVars>>
  /\ Draw

\* zoomIn and zoomOut: performZoomGlobal(sc, undefined)
ZoomCommand(op, sc) ==
  LET z == PerformZoomGlobal(startIndex, visibleCount, Len(data), sc, -1)
  IN /\ visibleCount' = z.visibleCount
     /\ startIndex' = z.startIndex
     /\ last' = Ran(op, 0, 0)
     /\ Seen
     /\ UNCHANGED <<data, follow, yVars, dragVars, resizeVars, yOps, rt, listeners, liveVars>>
     /\ Draw

ZoomIn == ZoomCommand("zoomIn", Scale085)

ZoomOut == ZoomCommand("zoomOut", Scale115)

ResetView ==
  /\ visibleCount' = InitialVisible(Len(data))
  /\ startIndex' = Max(0, Len(data) - InitialVisible(Len(data)))
  /\ autoY' = TRUE
  /\ yMin' = JNull
  /\ yMax' = JNull
  /\ last' = Ran("resetView", 0, 0)
  /\ Seen
  /\ UNCHANGED <<data, follow, dragVars, resizeVars, yOps, rt, listeners, liveVars>>
  /\ Draw

ResetY ==
  /\ autoY' = TRUE
  /\ yMin' = JNull
  /\ yMax' = JNull
  /\ last' = Ran("resetY", 0, 0)
  /\ Seen
  /\ UNCHANGED <<data, follow, viewVars, dragVars, resizeVars, yOps, rt, listeners, liveVars>>
  /\ Draw

(* ------------------------------------------------------------------ *)
(* Pointer and wheel handlers                                           *)
(* ------------------------------------------------------------------ *)
\* Math.exp(dyTotal * 0.002) for the vertical distances the pointer inputs
\* give, to three significant digits as a fraction
\* (exp(0.446) = 1.5621..., exp(-0.446) = 0.6401...)
ExpK(dyTotal) ==
  CASE dyTotal = 0 -> JInt(1)
    [] dyTotal = 223 -> JNum(25, 16)
    [] dyTotal = -223 -> JNum(16, 25)
    [] OTHER -> JNaN

\* the Y-range handleWheel writes with altKey
WheelYRange(d, start, vc, ymin, ymax, offsetY, zoomOut) ==
  LET yRel == Max(0, Min(PlotHeight, offsetY - PADDING_TOP))
      pb == PriceBounds(d, start, vc, ymin, ymax)
      range == JSub(pb.max, pb.min)
      priceAtCursor ==
        JSub(pb.max, JMul(JDiv(JInt(yRel), JOrOne(JInt(PlotHeight))), range))
      vScale == IF zoomOut THEN JNum(23, 20) ELSE JNum(17, 20)
      newRange == JMul(range, vScale)
      ratioTop == JDiv(JSub(pb.max, priceAtCursor), JOrOne(range))
      ratioBottom == JSub(JInt(1), ratioTop)
  IN [min |-> JSub(priceAtCursor, JMul(newRange, ratioBottom)),
      max |-> JAdd(priceAtCursor, JMul(newRange, ratioTop))]

\* a variant of HandleWheel without the altKey branch
HandleWheelNoAlt(offsetX, offsetY, zoomOut, mod) ==
  /\ Attached("wheel")
  /\ lastMouseY' = offsetY
  /\ LET sc == WheelScale(zoomOut, mod = "shift", mod = "ctrl")
         z == PerformZoomGlobal(startIndex, visibleCount, Len(data), sc,
                                offsetX)
     IN /\ visibleCount' = z.visibleCount
        /\ startIndex' = z.startIndex
  /\ last' = Ran(IF mod = "alt" THEN "wheelY" ELSE "wheelZoom", 0, 0)
  /\ Seen
  /\ UNCHANGED <<data, follow, yVars, yOps, isDragging, isResizingY, lastX, pan,
                 resizeVars, rt, listeners, liveVars>>
  /\ Draw

\* handleWheel
HandleWheel(offsetX, offsetY, zoomOut, mod) ==
  /\ Attached("wheel")
  /\ lastMouseY' = offsetY
  /\ IF mod = "alt"
     THEN /\ yOps < MaxYOps
          /\ autoY' = FALSE
          /\ LET r == WheelYRange(data, startIndex, visibleCount, yMin, yMax,
                                  offsetY, zoomOut)
             IN yMin' = r.min /\ yMax' = r.max
          /\ yOps' = yOps + 1
          /\ last' = Ran("wheelY", 0, 0)
          /\ UNCHANGED viewVars
     ELSE /\ LET sc == WheelScale(zoomOut, mod = "shift", mod = "ctrl")
                 z == PerformZoomGlobal(startIndex, visibleCount, Len(data),
                                        sc, offsetX)
             IN /\ visibleCount' = z.visibleCount
                /\ startIndex' = z.startIndex
                /\ last' = Ran("wheelZoom", 0, 0)
          /\ UNCHANGED <<yVars, yOps>>
  /\ Seen
  /\ UNCHANGED <<data, follow, isDragging, isResizingY, lastX, pan,
                 resizeVars, rt, listeners, liveVars>>
  /\ Draw

\* a variant of StartsResize with the area starting at plotWidth - paddingRight
StartsResizeAtPlot(x) ==
  /\ x >= PlotWidth - PADDING_RIGHT
  /\ Len(ViewData(data, startIndex, visibleCount)) > 0

\* the pointer-down starts a Y resize: x in the right axis area and the
\* visible slice not empty
StartsResize(x) ==
  /\ x >= Width - PADDING_RIGHT
  /\ Len(ViewData(data, startIndex, visibleCount)) > 0

\* handleMouseDown; the canvas sits at the origin of the client area
\* (rect.left = rect.top = 0).  onUserPan is App's setFollow(false); the
\* re-render it causes runs the follow effect when follow was set.
HandleMouseDown(clientX, clientY) ==
  /\ Attached("mousedown")
  /\ isDragging' = TRUE
  /\ lastX' = clientX
  /\ lastMouseY' = clientY
  /\ IF StartsResize(clientX)
     THEN LET plotHeight == PlotHeight
              pb == PriceBounds(data, startIndex, visibleCount, yMin, yMax)
              anchorY == Max(0, Min(plotHeight, clientY - PADDING_TOP))
              span == JSub(pb.max, pb.min)
              priceAtCursor ==
                JSub(pb.max,
                     JMul(JDiv(JInt(anchorY), JOrOne(JInt(plotHeight))), span))
          IN /\ yOps < MaxYOps
             /\ yOps' = yOps + 1
             /\ autoY' = FALSE
             /\ isResizingY' = TRUE
             /\ resizeStartMouseY' = clientY
             /\ resizeAnchorY' = anchorY
             /\ resizeInitialRange' = span
             /\ resizeAnchorPrice' = priceAtCursor
             /\ resizeAnchorTopRatio' =
                  JDiv(JSub(pb.max, priceAtCursor), JOrOne(span))
             /\ grabbed' = [min |-> pb.min, max |-> pb.max]
     ELSE UNCHANGED <<autoY, isResizingY, resizeVars, yOps>>
  /\ LET v == Rerendered(data, FALSE, FALSE, startIndex, visibleCount)
     IN /\ follow' = FALSE
        /\ startIndex' = v.startIndex
        /\ visibleCount' = v.visibleCount
        /\ pan' = IF pan.rec
                  THEN [rec |-> TRUE, x |-> clientX, start |-> v.startIndex,
                        free |-> TRUE]
                  ELSE pan
  /\ last' = Ran("mouseDown", 0, 0)
  /\ Seen
  /\ UNCHANGED <<data, yMin, yMax, rt, listeners, liveVars, plot>>

\* a variant of ResizeYRange that scales the current range by the step of
\* the pointer since the previous event
ResizeYRangeByStep(clientY) ==
  LET pb == PriceBounds(data, startIndex, visibleCount, yMin, yMax)
      k == ExpK(clientY - lastMouseY)
      newRange == JMax(Epsilon, JMul(JSub(pb.max, pb.min), k))
      ratioTop == resizeAnchorTopRatio
      ratioBottom == JSub(JInt(1), ratioTop)
  IN [min |-> JSub(resizeAnchorPrice, JMul(newRange, ratioBottom)),
      max |-> JAdd(resizeAnchorPrice, JMul(newRange, ratioTop))]

\* the Y-range the resize branch of handleMouseMove writes
ResizeYRange(clientY) ==
  LET dyTotal == clientY - resizeStartMouseY
      k == ExpK(dyTotal)
      newRange == JMax(Epsilon, JMul(resizeInitialRange, k))
      ratioTop == resizeAnchorTopRatio
      ratioBottom == JSub(JInt(1), ratioTop)
  IN [min |-> JSub(resizeAnchorPrice, JMul(newRange, ratioBottom)),
      max |-> JAdd(resizeAnchorPrice, JMul(newRange, ratioTop))]

\* the Y-range the vertical pan of handleMouseMove writes for dy # 0
PanYRange(dy) ==
  LET pb == PriceBounds(data, startIndex, visibleCount, yMin, yMax)
      pricePerPx == JDiv(JSub(pb.max, pb.min), JOrOne(JInt(PlotHeight)))
      deltaPrice == JMul(JInt(dy), pricePerPx)
  IN [min |-> JAdd(Coalesce(yMin, pb.min), deltaPrice),
      max |-> JAdd(Coalesce(yMax, pb.max), deltaPrice)]

\* Math.round(-dx / perCandle) of handleMouseMove
DeltaCandles(dx, vc) == RoundDiv(-dx, Max(1, CandleSpan(vc)))

HandleMouseMove(clientX, clientY) ==
  LET dx == clientX - lastX
      dy == clientY - (IF lastMouseY # 0 THEN lastMouseY ELSE clientY)
      deltaCandles == DeltaCandles(dx, visibleCount)
      visible == ClampVisible(Len(data), visibleCount)
  IN
  /\ Attached("mousemove")
  /\ pan' = IF pan.rec /\ isDragging /\ ~isResizingY /\ deltaCandles # 0
            THEN [pan EXCEPT !.free =
                    /\ pan.free
                    /\ visible = visibleCount
                    /\ ClampStart(Len(data), visible,
                                  startIndex + deltaCandles)
                         = startIndex + deltaCandles]
            ELSE pan
  /\ IF ~isDragging
     THEN UNCHANGED <<viewVars, yVars, lastX, lastMouseY, yOps>>
     ELSE /\ lastX' = clientX
          /\ lastMouseY' = clientY
          /\ IF isResizingY
             THEN /\ yMin' = ResizeYRange(clientY).min
                  /\ yMax' = ResizeYRange(clientY).max
                  /\ UNCHANGED <<viewVars, autoY, yOps>>
             ELSE /\ IF dy # 0
                     THEN /\ yOps < MaxYOps
                          /\ yOps' = yOps + 1
                          /\ autoY' = FALSE
                          /\ yMin' = PanYRange(dy).min
                          /\ yMax' = PanYRange(dy).max
                     ELSE UNCHANGED <<yVars, yOps>>
                  /\ IF deltaCandles # 0
                     THEN /\ visibleCount' = visible
                          /\ startIndex' =
                               ClampStart(Len(data), visible,
                                          startIndex + deltaCandles)
                     ELSE UNCHANGED viewVars
  /\ last' = Ran("mouseMove", 0, 0)
  /\ Seen
  /\ UNCHANGED <<data, follow, isDragging, isResizingY, resizeVars, rt, listeners, liveVars>>
  /\ IF isDragging THEN Draw ELSE UNCHANGED plot

\* handleMouseUp (mouseup on the window, mouseleave on the canvas)
HandleMouseUp ==
  /\ Attached("mouseup") \/ Attached("mouseleave")
  /\ isDragging' = FALSE
  /\ isResizingY' = FALSE
  /\ pan' = [NoPan EXCEPT !.rec = pan.rec]
  /\ last' = Ran("mouseUp", 0, 0)
  /\ Seen
  /\ UNCHANGED <<data, follow, viewVars, yVars, lastX, lastMouseY,
                 resizeVars, yOps, rt, listeners, liveVars, plot>>

(* ------------------------------------------------------------------ *)
(* Specification                                                        *)
(* ------------------------------------------------------------------ *)
Next ==
  \/ \E n \in HistoryLens : SetData(n)
  \/ \E k \in StreamBars(data) : KlineUpdate(k)
  \/ ToggleFollow
  \/ \E r \in RangeArgs : SetRangeByTime(r[1], r[2])
  \/ ScrollToEnd
  \/ ZoomIn
  \/ ZoomOut
  \/ ResetView
  \/ ResetY
  \/ \E x \in WheelXs, y \in WheelYs, out \in BOOLEAN, m \in Modifiers :
       HandleWheel(x, y, out, m)
  \/ \E p \in DownAt : HandleMouseDown(p[1], p[2])
  \/ \E p \in MoveTo : HandleMouseMove(p[1], p[2])
  \/ HandleMouseUp

Spec == Init /\ [][Next]_vars

(* ------------------------------------------------------------------ *)
(* Navigation: the same handlers without the gestures that change the   *)
(* Y-range (no altKey wheel, no pointer-down in the price axis, no      *)
(* vertical pointer movement)                                           *)
(* ------------------------------------------------------------------ *)
NavModifiers == Modifiers \ {"alt"}
NavDownAt == {p \in DownAt : p[1] < Width - PADDING_RIGHT}
NavMoveTo == {p \in MoveTo : p[2] \in WheelYs}

NextNav ==
  \/ \E n \in HistoryLens : SetData(n)
  \/ \E k \in StreamBars(data) : KlineUpdate(k)
  \/ ToggleFollow
  \/ \E r \in RangeArgs : SetRangeByTime(r[1], r[2])
  \/ ScrollToEnd
  \/ ZoomIn
  \/ ZoomOut
  \/ ResetView
  \/ ResetY
  \/ \E x \in WheelXs, y \in WheelYs, out \in BOOLEAN, m \in NavModifiers :
       HandleWheel(x, y, out, m)
  \/ \E p \in NavDownAt : HandleMouseDown(p[1], p[2])
  \/ \E p \in NavMoveTo : HandleMouseMove(p[1], p[2])
  \/ HandleMouseUp

SpecNav == Init /\ [][NextNav]_vars

(* ------------------------------------------------------------------ *)
(* Zoom round trips: performZoomGlobal(s, x) and then                   *)
(* performZoomGlobal(1/s, x), on a sequence of RTLen bars               *)
(* ------------------------------------------------------------------ *)
\* the scale factors of the callers of performZoomGlobal
ZoomScales ==
  {WheelScale(out, sh, ct) : out \in BOOLEAN, sh \in BOOLEAN, ct \in BOOLEAN}
\* anchor pixels: -1 is the undefined anchor of zoomIn/zoomOut, 5 and 880 lie
\* outside the plot area
ZoomXs == {-1, 5, 100, 205, 430, 700, 880}
\* the viewports the round trips start from
ZoomVisible == {10, 12, 27, 31, 40, 60}
ZoomStarts == {0, 5, 10, 20, 33}

\* 1/s for a scale factor s
Inverse(sc) == [num |-> sc.den, den |-> sc.num]

\* a call performZoomGlobal(sc, x) left the viewport as it computed it:
\* neither the [10, 5000] limit nor clampViewportLocal changed anything
ZoomFree(start, vc, L, sc, x) ==
  /\ ScaleRound(vc, sc) = ZoomRaw(start, vc, sc, x).visibleCount
  /\ PerformZoomGlobal(start, vc, L, sc, x) = ZoomRaw(start, vc, sc, x)

\* the final clampViewportLocal of performZoomGlobal(sc, x) changed nothing
ClampFree(start, vc, L, sc, x) ==
  PerformZoomGlobal(start, vc, L, sc, x) = ZoomRaw(start, vc, sc, x)

\* a call performZoomGlobal(sc, x)
ZoomBy(sc, x) ==
  LET z == PerformZoomGlobal(startIndex, visibleCount, Len(data), sc, x)
  IN /\ visibleCount' = z.visibleCount
     /\ startIndex' = z.startIndex
     /\ last' = Ran("zoom", 0, 0)
     /\ Seen
     /\ UNCHANGED <<data, follow, yVars, dragVars, resizeVars, yOps,
                    liveVars, listeners>>
     /\ Draw

\* the first zoom of a round trip
ZoomThere(sc, x) ==
  /\ rt.phase = 0
  /\ ZoomBy(sc, x)
  /\ rt' = [phase |-> 1, sc |-> sc, x |-> x, vc0 |-> visibleCount,
            idx0 |-> IdxAtAnchor(startIndex, visibleCount, ZoomAnchor(x)),
            idxPrev |-> IdxAtAnchor(startIndex, visibleCount, ZoomAnchor(x)),
            freeLast |-> ClampFree(startIndex, visibleCount, Len(data), sc, x),
            freeAll |-> ZoomFree(startIndex, visibleCount, Len(data), sc, x)]

\* the second zoom: the inverse factor at the same pixel
ZoomBack ==
  /\ rt.phase = 1
  /\ ZoomBy(Inverse(rt.sc), rt.x)
  /\ rt' = [rt EXCEPT
              !.phase = 2,
              !.idxPrev = IdxAtAnchor(startIndex, visibleCount,
                                      ZoomAnchor(rt.x)),
              !.freeLast = ClampFree(startIndex, visibleCount, Len(data),
                                     Inverse(rt.sc), rt.x),
              !.freeAll = rt.freeAll
                          /\ ZoomFree(startIndex, visibleCount, Len(data),
                                      Inverse(rt.sc), rt.x)]

\* the chart holds RTLen bars, follow is off and setRangeByTime has put the
\* window on the bars start .. start + vc - 1
InitZoom ==
  /\ data = History(RTLen)
  /\ follow = FALSE
  /\ visibleCount \in ZoomVisible
  /\ startIndex \in {s \in ZoomStarts : s + visibleCount <= RTLen}
  /\ InitRefs
  /\ last = [op |-> "setRangeByTime", a |-> OpenTimeAt(startIndex + 1),
             b |-> OpenTimeAt(startIndex + visibleCount), rep |-> FALSE]
  /\ hadData = TRUE
  /\ rt = NoRT
  /\ InitLive
  /\ plot = DrawRange(data, startIndex, visibleCount, autoY, yMin, yMax)
  /\ listeners = Registered({})

NextZoom ==
  \/ \E sc \in ZoomScales, x \in ZoomXs : ZoomThere(sc, x)
  \/ ZoomBack

SpecZoom == InitZoom /\ [][NextZoom]_vars

(* ------------------------------------------------------------------ *)
(* Pointer gestures: the wheel and the drag handlers on a chart whose   *)
(* sequence is loaded and grows                                         *)
(* ------------------------------------------------------------------ *)
\* pointer-down positions on both sides of x = plotWidth - paddingRight (770)
\* and of x = width - paddingRight (840)
PointerDownAt ==
  {<<300, 233>>, <<769, 233>>, <<800, 233>>, <<839, 233>>, <<840, 233>>,
   <<860, 233>>}
PointerLens == {0, 12}

NextPointer ==
  \/ \E n \in PointerLens : SetData(n)
  \/ \E k \in StreamBars(data) : KlineUpdate(k)
  \/ ToggleFollow
  \/ \E x \in WheelXs, y \in WheelYs, out \in BOOLEAN, m \in Modifiers :
       HandleWheel(x, y, out, m)
  \/ \E p \in PointerDownAt : HandleMouseDown(p[1], p[2])
  \/ \E p \in MoveTo : HandleMouseMove(p[1], p[2])
  \/ HandleMouseUp

SpecPointer == Init /\ [][NextPointer]_vars

(* ------------------------------------------------------------------ *)
(* Mounting: the main effect runs, is cleaned up and runs again, with   *)
(* the handlers it registers                                            *)
(* ------------------------------------------------------------------ *)
\* the component unmounts: the cleanup of the main effect
Unmount ==
  /\ listeners # {}
  /\ listeners' = CleanedUp(listeners)
  /\ last' = Ran("unmount", 0, 0)
  /\ Seen
  /\ UNCHANGED <<data, follow, viewVars, yVars, dragVars, resizeVars, yOps,
                 rt, liveVars, plot>>

\* the main effect runs again on the component (the second run of a
\* development build's strict mode): clamp, draw, addEventListener
Remount ==
  /\ listeners = {}
  /\ Rerender(data, TRUE, follow)
  /\ last' = Ran("mount", 0, 0)
  /\ UNCHANGED <<yVars, dragVars, resizeVars, yOps, rt, liveVars>>

NextMount ==
  \/ \E n \in HistoryLens : listeners # {} /\ SetData(n)
  \/ Unmount
  \/ Remount
  \/ \E x \in WheelXs, y \in WheelYs, out \in BOOLEAN, m \in NavModifiers :
       HandleWheel(x, y, out, m)
  \/ \E p \in NavDownAt : HandleMouseDown(p[1], p[2])
  \/ \E p \in NavMoveTo : HandleMouseMove(p[1], p[2])
  \/ HandleMouseUp

SpecMount == Init /\ [][NextMount]_vars

(* ------------------------------------------------------------------ *)
(* The pan drag: pointer-down in the plot area, moves along a           *)
(* horizontal line, pointer-up, over a sequence longer than the window  *)
(* ------------------------------------------------------------------ *)
PanDownAt == {<<400, 233>>}
PanMoveTo == {<<x, 233>> : x \in {380, 394, 400, 420, 700}}
PanVisible == {10, 40}
PanStarts == {10}

InitPan ==
  /\ data = History(RTLen)
  /\ follow = FALSE
  /\ visibleCount \in PanVisible
  /\ startIndex \in PanStarts
  /\ InitRefsWith(0, TRUE)
  /\ last = [op |-> "setRangeByTime", a |-> OpenTimeAt(startIndex + 1),
             b |-> OpenTimeAt(startIndex + visibleCount), rep |-> FALSE]
  /\ hadData = TRUE
  /\ rt = NoRT
  /\ InitLive
  /\ plot = DrawRange(data, startIndex, visibleCount, autoY, yMin, yMax)
  /\ listeners = Registered({})

NextPan ==
  \/ \E p \in PanDownAt : HandleMouseDown(p[1], p[2])
  \/ \E p \in PanMoveTo : HandleMouseMove(p[1], p[2])
  \/ HandleMouseUp

SpecPan == InitPan /\ [][NextPan]_vars

(* ------------------------------------------------------------------ *)
(* Zoom steps: the commands zoomIn, zoomOut and resetView on loaded     *)
(* sequences of at least 10 bars, one of them longer than 5000          *)
(* ------------------------------------------------------------------ *)
\* the bars by which the long sequence exceeds the limit of 5000
OverLimit == 3
StepLens == {10, 12, 19, 47, MaxVisible + OverLimit}

InitSteps ==
  \E n \in StepLens :
    /\ data = History(n)
    /\ follow = TRUE
    /\ visibleCount = Mounted(History(n), TRUE).visibleCount
    /\ startIndex = Mounted(History(n), TRUE).startIndex
    /\ InitRefs
    /\ last = [op |-> "setData", a |-> 0, b |-> 0, rep |-> FALSE]
    /\ hadData = TRUE
    /\ rt = NoRT
    /\ InitLive
    /\ plot = DrawRange(data, startIndex, visibleCount, autoY, yMin, yMax)
    /\ listeners = Registered({})

\* on the long sequence a zoom command is called again until it has reached
\* its limit, before the opposite command is called
Finished(op) ==
  \/ Len(data) <= RTLen
  \/ last.op # op
  \/ visibleCount = (IF op = "zoomIn" THEN MinVisible ELSE MaxVisible)

\* the viewport after performZoomGlobal(sc, undefined)
ViewAfter(sc) ==
  PerformZoomGlobal(startIndex, visibleCount, Len(data), sc, -1)

\* the viewport part of a call of zoomIn that follows a call of zoomIn, and
\* the same for zoomOut
AgainZoomIn ==
  /\ last.op = "zoomIn"
  /\ startIndex' = ViewAfter(Scale085).startIndex
  /\ visibleCount' = ViewAfter(Scale085).visibleCount
AgainZoomOut ==
  /\ last.op = "zoomOut"
  /\ startIndex' = ViewAfter(Scale115).startIndex
  /\ visibleCount' = ViewAfter(Scale115).visibleCount

NextSteps ==
  \/ Finished("zoomOut") /\ ZoomIn
  \/ Finished("zoomIn") /\ ZoomOut
  \/ ResetView

\* a command that is being repeated is called again as long as a call
\* changes the viewport
SpecSteps ==
  /\ InitSteps
  /\ [][NextSteps]_vars
  /\ WF_viewVars(AgainZoomIn)
  /\ WF_viewVars(AgainZoomOut)

(* ------------------------------------------------------------------ *)
(* Price range: the handlers that write or reset the Y-range and the    *)
(* draws that follow them, on sequences whose bars differ in price      *)
(* ------------------------------------------------------------------ *)
\* the number of Y gestures of one run
YGestures == 2

\* bars with the highs hs and the lows ls
PricedBars(hs, ls) ==
  [i \in 1..Len(hs) |-> [MkBar(i) EXCEPT !.high = hs[i], !.low = ls[i]]]

ExampleHighs == <<10, 12, 9>>
ExampleLows == <<8, 7, 11>>

\* one bar with high = low
FlatBars == PricedBars(<<5>>, <<5>>)

\* no bars, the bars of the example, one flat bar, a rising sequence
PricedDatas ==
  {<< >>,
   PricedBars(ExampleHighs, ExampleLows),
   FlatBars,
   PricedBars(<<20, 30, 40, 50>>, <<10, 20, 30, 40>>)}

RangeWheelYs == {10, 233}
RangeModifiers == {"none", "alt"}
RangeDownAt == {<<300, 233>>, <<860, 233>>}
RangeMoveTo == {<<300, 233>>, <<300, 10>>}

\* a history load resolves with the bars d: setData(kl)
LoadPrices(d) ==
  /\ Rerender(d, TRUE, follow)
  /\ last' = Ran("setData", 0, 0)
  /\ UNCHANGED <<yVars, dragVars, resizeVars, yOps, rt, liveVars>>

InitRange ==
  /\ data = << >>
  /\ follow = TRUE
  /\ visibleCount = Mounted(<< >>, TRUE).visibleCount
  /\ startIndex = Mounted(<< >>, TRUE).startIndex
  /\ InitRefsWith(MaxYOps - YGestures, FALSE)
  /\ last = [op |-> "mount", a |-> 0, b |-> 0, rep |-> FALSE]
  /\ hadData = FALSE
  /\ rt = NoRT
  /\ InitLive
  /\ plot = NoPlot
  /\ listeners = Registered({})

\* the pointer is used over every sequence but the flat one, whose range of
\* 1e-9 is beyond the integers of the price arithmetic
NextRange ==
  \/ \E d \in PricedDatas : LoadPrices(d)
  \/ \E y \in RangeWheelYs, out \in BOOLEAN, m \in RangeModifiers :
       data # FlatBars /\ HandleWheel(100, y, out, m)
  \/ \E p \in RangeDownAt : data # FlatBars /\ HandleMouseDown(p[1], p[2])
  \/ \E p \in RangeMoveTo : data # FlatBars /\ HandleMouseMove(p[1], p[2])
  \/ HandleMouseUp
  \/ ResetY
  \/ ResetView

SpecRange == InitRange /\ [][NextRange]_vars

(* ------------------------------------------------------------------ *)
(* Live data: the messages of the two streams and the setData updaters  *)
(* ------------------------------------------------------------------ *)
\* JavaScript values that are not numbers.  Times, prices and quantities of
\* the live model are non-negative integers; NaN stands for the number NaN
\* (Number(undefined), Math.floor(undefined / 1000)) and Undefined for the
\* value of a property the message does not have.
NaN == 0 - 1
Undefined == 0 - 2
IsNum(x) == x >= 0
\* Number(x)
ToNumber(x) == IF x = Undefined THEN NaN ELSE x
\* a === b
StrictEq(a, b) == a # NaN /\ b # NaN /\ a = b
\* a > b
NumGt(a, b) == IsNum(a) /\ IsNum(b) /\ a > b
\* Math.max(a, b), Math.min(a, b), a + b
NumMax(a, b) == IF IsNum(a) /\ IsNum(b) THEN Max(a, b) ELSE NaN
NumMin(a, b) == IF IsNum(a) /\ IsNum(b) THEN Min(a, b) ELSE NaN
NumAdd(a, b) == IF IsNum(a) /\ IsNum(b) THEN a + b ELSE NaN
\* Math.floor(t / ms) * ms
FloorTo(t, ms) == IF IsNum(ToNumber(t)) THEN (t \div ms) * ms ELSE NaN

SecondMs == 1000
MinuteMs == 60000
\* the intervals of the model: "1s" is served by the trade stream, every
\* other interval by the kline stream
LiveIntervals == {"1s", "1m"}
StreamOf(iv) == IF iv = "1s" THEN "trade" ELSE "kline"
IntervalMs(iv) == IF iv = "1s" THEN SecondMs ELSE MinuteMs

\* the exchange's time when the run starts (a whole minute)
LiveEpoch == MinuteMs * MaxBuffer

\* a bar of the exchange with open time t
LiveBar(t) ==
  [openTime |-> t, open |-> 10, high |-> 10, low |-> 10, close |-> 10,
   volume |-> 1, numberOfTrades |-> 1]

\* the n latest bars of interval iv at time t, as fetchKlines returns them and
\* as aggregateToOneSecondKlines makes them of one trade per second
LiveHistory(iv, n, t) ==
  [i \in 1..n |-> LiveBar(FloorTo(t, IntervalMs(iv)) - IntervalMs(iv) * (n - i))]

\* the parsed data of a kline message: json is whether JSON.parse returned,
\* hasK whether msg && msg.k holds, the rest are the properties of msg.k
KlineMsg(json, hasK, t, p, n) ==
  [json |-> json, hasK |-> hasK, t |-> t, o |-> p, h |-> p, l |-> p, c |-> p,
   v |-> n, n |-> n]
\* the kline messages at time t: text that is not JSON, {} , {"k": {}} and
\* the bar in progress
KlineMsgs(t) ==
  {KlineMsg(FALSE, FALSE, Undefined, Undefined, Undefined),
   KlineMsg(TRUE, FALSE, Undefined, Undefined, Undefined),
   KlineMsg(TRUE, TRUE, Undefined, Undefined, Undefined),
   KlineMsg(TRUE, TRUE, FloorTo(t, MinuteMs), 11, 1)}

\* the message is JSON with every property of msg.k the handler reads
KlineWellFormed(m) ==
  m.json /\ m.hasK /\ \A x \in {m.t, m.o, m.h, m.l, m.c, m.v, m.n} : IsNum(x)
\* KlineWebSocket onmessage: whether onUpdate is called
KlineAccepted(m) == m.json /\ m.hasK
\* KlineWebSocket onmessage: the Kline given to onUpdate
KlineMapped(m) ==
  [openTime |-> m.t, open |-> ToNumber(m.o), high |-> ToNumber(m.h),
   low |-> ToNumber(m.l), close |-> ToNumber(m.c), volume |-> ToNumber(m.v),
   numberOfTrades |-> ToNumber(m.n)]

\* the parsed data of an aggTrade message: json is whether JSON.parse
\* returned, obj whether it returned an object (reading a property of null
\* throws)
TradeMsg(json, obj, t, p, q) ==
  [json |-> json, obj |-> obj, T |-> t, p |-> p, q |-> q]
\* the aggTrade messages at time t: text that is not JSON, null, {} , a
\* trade without its price, and trades at two prices
TradeMsgs(t) ==
  {TradeMsg(FALSE, FALSE, Undefined, Undefined, Undefined),
   TradeMsg(TRUE, FALSE, Undefined, Undefined, Undefined),
   TradeMsg(TRUE, TRUE, Undefined, Undefined, Undefined),
   TradeMsg(TRUE, TRUE, t, Undefined, 1),
   TradeMsg(TRUE, TRUE, t, 9, 2),
   TradeMsg(TRUE, TRUE, t, 12, 1)}

\* the message is JSON with every property the handler reads
TradeWellFormed(m) ==
  m.json /\ m.obj /\ \A x \in {m.T, m.p, m.q} : IsNum(x)
\* AggTradeWebSocket onmessage: whether onTrade is called
TradeAccepted(m) == m.json /\ m.obj
\* AggTradeWebSocket onmessage: the AggTrade given to onTrade
TradeMapped(m) ==
  [timestamp |-> m.T, price |-> ToNumber(m.p), quantity |-> ToNumber(m.q)]

\* a variant of TradeMerge whose new bar opens at the trade's own price
TradeMergeOpensAtTrade(prev, t) ==
  LET sec == FloorTo(t.timestamp, SecondMs)
      own == [openTime |-> sec, open |-> t.price, high |-> t.price,
              low |-> t.price, close |-> t.price, volume |-> t.quantity,
              numberOfTrades |-> 1]
  IN IF Len(prev) = 0
     THEN <<own>>
     ELSE LET lastBar == prev[Len(prev)]
          IN IF StrictEq(lastBar.openTime, sec)
             THEN Append(SubSeq(prev, 1, Len(prev) - 1),
                         [lastBar EXCEPT
                            !.high = NumMax(lastBar.high, t.price),
                            !.low = NumMin(lastBar.low, t.price),
                            !.close = t.price,
                            !.volume = NumAdd(lastBar.volume, t.quantity),
                            !.numberOfTrades =
                               NumAdd(lastBar.numberOfTrades, 1)])
             ELSE IF NumGt(sec, lastBar.openTime)
                  THEN Append(prev, own)
                  ELSE prev

\* the setData updater of the trade stream
TradeMerge(prev, t) ==
  LET sec == FloorTo(t.timestamp, SecondMs)
  IN IF Len(prev) = 0
     THEN <<[openTime |-> sec, open |-> t.price, high |-> t.price,
             low |-> t.price, close |-> t.price, volume |-> t.quantity,
             numberOfTrades |-> 1]>>
     ELSE LET lastBar == prev[Len(prev)]
          IN IF StrictEq(lastBar.openTime, sec)
             THEN Append(SubSeq(prev, 1, Len(prev) - 1),
                         [lastBar EXCEPT
                            !.high = NumMax(lastBar.high, t.price),
                            !.low = NumMin(lastBar.low, t.price),
                            !.close = t.price,
                            !.volume = NumAdd(lastBar.volume, t.quantity),
                            !.numberOfTrades =
                               NumAdd(lastBar.numberOfTrades, 1)])
             ELSE IF NumGt(sec, lastBar.openTime)
                  THEN Append(prev,
                              [openTime |-> sec, open |-> lastBar.close,
                               high |-> t.price, low |-> t.price,
                               close |-> t.price, volume |-> t.quantity,
                               numberOfTrades |-> 1])
                  ELSE prev

\* the steps of the exchange's time between two live messages
TimeSteps == {0, SecondMs, MinuteMs}

\* a message arrives on the open socket of stream c at time t
Delivered(c, t) ==
  /\ sub[c].ws = "open"
  /\ msgs < MaxMsgs
  /\ now' = t
  /\ msgs' = msgs + 1
  /\ fetch' = fetch
  /\ older' = older
  /\ UNCHANGED <<interval, sub, trades, agg>>

\* setData(updater) with the updater's result next; React re-renders unless
\* the updater returned the array it was given
SetDataLive(next, sameArray) ==
  IF sameArray
  THEN /\ Seen
       /\ UNCHANGED <<data, follow, viewVars, plot, listeners>>
  ELSE Rerender(next, TRUE, follow)

\* KlineWebSocket onmessage with the App's onUpdate
KlineMessage(m, t) ==
  /\ Delivered("kline", t)
  /\ IF KlineAccepted(m)
     THEN SetDataLive(KlineMerge(data, KlineMapped(m)), FALSE)
     ELSE SetDataLive(data, TRUE)
  /\ last' = Ran("klineMessage", IF KlineAccepted(m) THEN 1 ELSE 0,
                 IF KlineWellFormed(m) THEN 1 ELSE 0)
  /\ UNCHANGED <<yVars, dragVars, resizeVars, yOps, rt>>

\* the App's onTrade: setData with the trade updater, which returns prev
\* itself when the trade's second is neither the last bar's nor a later one
OnTrade(t) ==
  SetDataLive(TradeMerge(data, t),
              Len(data) > 0
                /\ ~StrictEq(data[Len(data)].openTime,
                             FloorTo(t.timestamp, SecondMs))
                /\ ~NumGt(FloorTo(t.timestamp, SecondMs),
                          data[Len(data)].openTime))

\* AggTradeWebSocket onmessage with the App's onTrade
TradeMessage(m, t) ==
  /\ Delivered("trade", t)
  /\ IF TradeAccepted(m)
     THEN OnTrade(TradeMapped(m))
     ELSE SetDataLive(data, TRUE)
  /\ last' = Ran("tradeMessage", IF TradeAccepted(m) THEN 1 ELSE 0,
                 IF TradeWellFormed(m) THEN 1 ELSE 0)
  /\ UNCHANGED <<yVars, dragVars, resizeVars, yOps, rt>>

\* the socket of stream c opens
SocketOpens(c) ==
  /\ sub[c].ws = "connecting"
  /\ sub' = [sub EXCEPT ![c].ws = "open"]
  /\ Seen
  /\ last' = Ran("socketOpens", StreamNo(c), 0)
  /\ UNCHANGED <<data, follow, viewVars, yVars, dragVars, resizeVars, yOps,
                 rt, listeners, interval, trades, agg, now, msgs, fetch, older, plot>>

\* the interval select: setInterval(iv).  The live effect stops the object
\* of the interval left (its sockets' later events find stopped set and do
\* nothing) and constructs and starts the object of iv; the history effect
\* starts a load that HistoryLoaded resolves.
SetInterval(iv) ==
  /\ iv # interval
  /\ interval' = iv
  /\ sub' = [c \in Streams |->
               IF c = StreamOf(iv) THEN StartSub(NewSub) ELSE StopSub(sub[c])]
  /\ Seen
  /\ last' = Ran("setInterval", StreamNo(StreamOf(iv)), 0)
  /\ UNCHANGED <<data, follow, viewVars, yVars, dragVars, resizeVars, yOps,
                 rt, listeners, trades, agg, now, msgs, fetch, older, plot>>

\* the lengths of the sequences a history load returns: fetchKlines asks for
\* 1000 bars; the 1-second history has a bar for every second with a trade
KlineLimit == 1000
LiveLoadLens(iv) == IF iv = "1s" THEN {0, 3} ELSE {KlineLimit}

\* the history load of the current interval resolves: setData(kl)
HistoryLoaded(n) ==
  /\ Rerender(LiveHistory(interval, n, now), TRUE, follow)
  /\ last' = Ran("historyLoaded", n, 0)
  /\ UNCHANGED <<yVars, dragVars, resizeVars, yOps, rt, liveVars>>

\* "load older" (shown when interval is "1s") with a fetch that returned
\* trades in the n seconds before the first bar:
\* setData(prev => older.concat(prev))
LoadOlder(n) ==
  /\ interval = "1s"
  /\ Len(data) > 0
  /\ Len(data) <= MaxOlderLen
  /\ IsNum(data[1].openTime)
  /\ Rerender(LiveHistory("1s", n, data[1].openTime - 1) \o data, TRUE, follow)
  /\ last' = Ran("loadOlder", n, 0)
  /\ UNCHANGED <<yVars, dragVars, resizeVars, yOps, rt, liveVars>>

(* ------------------------------------------------------------------ *)
(* Live runs: the two streams feeding the sequence, from an empty       *)
(* sequence and from one that is one bar short of the buffer limit      *)
(* ------------------------------------------------------------------ *)
LiveLens == {0, MaxBuffer - 1}

\* the viewport of a chart that follows a sequence of L bars since mount
Following(L) ==
  LET vc0 == Mounted(<< >>, TRUE).visibleCount
      visible == ClampVisible(L, vc0)
  IN [visibleCount |-> visible,
      startIndex |-> ClampStart(L, visible, FollowStart(TRUE, 0, vc0, L))]

InitLiveRun ==
  \E iv \in LiveIntervals, n \in LiveLens :
    /\ interval = iv
    /\ data = LiveHistory(iv, n, LiveEpoch)
    /\ follow = TRUE
    /\ visibleCount = Following(n).visibleCount
    /\ startIndex = Following(n).startIndex
    /\ InitRefs
    /\ last = [op |-> "mount", a |-> 0, b |-> 0, rep |-> FALSE]
    /\ hadData = (n > 0)
    /\ rt = NoRT
    /\ sub = [c \in Streams |->
                IF c = StreamOf(iv) THEN StartSub(NewSub) ELSE NewSub]
    /\ trades = << >>
    /\ agg = << >>
    /\ now = LiveEpoch
    /\ msgs = 0
    /\ fetch = NoFetch
    /\ older = NoOlder
    /\ plot = DrawRange(data, startIndex, visibleCount, autoY, yMin, yMax)
    /\ listeners = Registered({})

NextLive ==
  \/ \E c \in Streams : SocketOpens(c)
  \/ \E d \in TimeSteps : \E m \in KlineMsgs(now + d) : KlineMessage(m, now + d)
  \/ \E d \in TimeSteps : \E m \in TradeMsgs(now + d) : TradeMessage(m, now + d)
  \/ \E iv \in LiveIntervals : SetInterval(iv)
  \/ \E n \in LiveLoadLens(interval) : HistoryLoaded(n)
  \/ \E n \in {2} : LoadOlder(n)

SpecLive == InitLiveRun /\ [][NextLive]_vars

(* ------------------------------------------------------------------ *)
(* One-second bars: aggregateToOneSecondKlines on fetched trades and    *)
(* the live merge of trades delivered one at a time                     *)
(* ------------------------------------------------------------------ *)
Trade(ts, p, q) == [timestamp |-> ts, price |-> p, quantity |-> q]

\* the second of a trade
SecOf(t) == FloorTo(t.timestamp, SecondMs)

\* Array.from(bySecond.keys()).sort((a, b) => a - b)
RECURSIVE SortedSeconds(_)
SortedSeconds(S) ==
  IF S = {} THEN << >>
  ELSE LET m == CHOOSE x \in S : \A y \in S : x <= y
       IN <<m>> \o SortedSeconds(S \ {m})

\* bySecond.get(s): the trades of second s in the order of the input
Bucket(ts, s) == SelectSeq(ts, LAMBDA t : SecOf(t) = s)

\* a variant of SortByTime that leaves the array as it is
KeepOrder(arr) == arr

\* arr.sort((a, b) => a.timestamp - b.timestamp): a stable sort
RECURSIVE SortByTime(_)
SortByTime(arr) ==
  IF Len(arr) <= 1 THEN arr
  ELSE LET t == arr[Len(arr)]
           rest == SortByTime(SubSeq(arr, 1, Len(arr) - 1))
           k == Cardinality({i \in 1..Len(rest) :
                               rest[i].timestamp <= t.timestamp})
       IN SubSeq(rest, 1, k) \o <<t>> \o SubSeq(rest, k + 1, Len(rest))

\* Math.max(...arr.map(x => x.price)), Math.min(...), arr.reduce(sum)
RECURSIVE MaxPrice(_)
MaxPrice(arr) ==
  IF Len(arr) = 1 THEN arr[1].price
  ELSE NumMax(arr[1].price, MaxPrice(Tail(arr)))
RECURSIVE MinPrice(_)
MinPrice(arr) ==
  IF Len(arr) = 1 THEN arr[1].price
  ELSE NumMin(arr[1].price, MinPrice(Tail(arr)))
RECURSIVE SumQuantity(_)
SumQuantity(arr) ==
  IF Len(arr) = 0 THEN 0
  ELSE NumAdd(SumQuantity(SubSeq(arr, 1, Len(arr) - 1)),
              arr[Len(arr)].quantity)

\* the loop over seconds: the klines pushed for seconds[i..], with prevClose
\* (hasPrev is whether prevClose is defined)
RECURSIVE AggregateFrom(_, _, _, _, _)
AggregateFrom(ts, seconds, i, hasPrev, prevClose) ==
  IF i > Len(seconds) THEN << >>
  ELSE LET arr == SortByTime(Bucket(ts, seconds[i]))
           open == arr[1].price
           close == arr[Len(arr)].price
           bar == [openTime |-> seconds[i],
                   open |-> IF hasPrev THEN prevClose ELSE open,
                   high |-> MaxPrice(arr),
                   low |-> MinPrice(arr),
                   close |-> close,
                   volume |-> SumQuantity(arr),
                   numberOfTrades |-> Len(arr)]
       IN <<bar>> \o AggregateFrom(ts, seconds, i + 1, TRUE, close)

\* aggregateToOneSecondKlines(trades)
AggregateToOneSecondKlines(ts) ==
  IF Len(ts) = 0 THEN << >>
  ELSE AggregateFrom(ts, SortedSeconds({SecOf(ts[i]) : i \in 1..Len(ts)}),
                     1, FALSE, 0)

\* the trades of the model: four in three seconds, one at a second's first
\* millisecond, and two with the same timestamp and different prices
TradePool ==
  {Trade(1000, 10, 1), Trade(1500, 11, 2), Trade(1999, 9, 3),
   Trade(2000, 11, 1), Trade(3500, 9, 2), Trade(1500, 12, 1)}

\* the lists of at most n trades
RECURSIVE TradeLists(_)
TradeLists(n) ==
  IF n = 0 THEN {<< >>}
  ELSE LET shorter == TradeLists(n - 1)
       IN shorter \cup {Append(l, t) : l \in shorter, t \in TradePool}

\* the history load of interval "1s" resolves with the trades ts:
\* setData(aggregateToOneSecondKlines(trades)).  The effect starts one load
\* for an interval and range: none has delivered trades before.
TradesLoaded(ts) ==
  /\ msgs = Len(trades)
  /\ trades' = ts
  /\ agg' = AggregateToOneSecondKlines(ts)
  /\ msgs' = 0
  /\ fetch' = fetch
  /\ older' = older
  /\ Rerender(AggregateToOneSecondKlines(ts), TRUE, follow)
  /\ last' = Ran("tradesLoaded", Len(ts), 0)
  /\ UNCHANGED <<yVars, dragVars, resizeVars, yOps, rt, interval, sub, now>>

\* the trade stream delivers t, not older than the trades before it; trades
\* keeps the trades loaded and delivered, msgs counts those delivered since
\* the load
TradeDelivered(t) ==
  /\ sub["trade"].ws = "open"
  /\ Len(trades) < MaxTrades
  /\ \A i \in 1..Len(trades) : trades[i].timestamp <= t.timestamp
  /\ OnTrade(t)
  /\ trades' = Append(trades, t)
  /\ msgs' = msgs + 1
  /\ fetch' = fetch
  /\ older' = older
  /\ now' = t.timestamp
  /\ last' = Ran("tradeDelivered", 1, 1)
  /\ UNCHANGED <<yVars, dragVars, resizeVars, yOps, rt, interval, sub, agg>>

\* App with interval "1s" and the trade socket open, before the history
\* load has resolved
InitTrades ==
  /\ data = << >>
  /\ follow = TRUE
  /\ visibleCount = Mounted(<< >>, TRUE).visibleCount
  /\ startIndex = Mounted(<< >>, TRUE).startIndex
  /\ InitRefs
  /\ last = [op |-> "mount", a |-> 0, b |-> 0, rep |-> FALSE]
  /\ hadData = FALSE
  /\ rt = NoRT
  /\ interval = "1s"
  /\ sub = [c \in Streams |->
              IF c = "trade" THEN [StartSub(NewSub) EXCEPT !.ws = "open"]
              ELSE StopSub(StartSub(NewSub))]
  /\ trades = << >>
  /\ agg = << >>
  /\ now = 0
  /\ msgs = 0
  /\ fetch = NoFetch
  /\ older = NoOlder
  /\ plot = NoPlot
  /\ listeners = Registered({})

NextTrades ==
  \/ \E ts \in TradeLists(MaxTrades) : TradesLoaded(ts)
  \/ \E t \in TradePool : TradeDelivered(t)

SpecTrades == InitTrades /\ [][NextTrades]_vars

(* ------------------------------------------------------------------ *)
(* Connections: the events of the sockets and of the reconnect timer of *)
(* the two subscription objects                                         *)
(* ------------------------------------------------------------------ *)
\* what the subscription actions leave alone
WsUnchanged ==
  UNCHANGED <<data, follow, viewVars, yVars, dragVars, resizeVars, yOps, rt, listeners,
              interval, trades, agg, now, msgs, fetch, older, plot>>

\* start() on an object that has no socket (new, or stopped)
Start(c) ==
  /\ sub[c].ws = "none"
  /\ sub' = [sub EXCEPT ![c] = StartSub(sub[c])]
  /\ Seen
  /\ last' = Ran("start", StreamNo(c), 0)
  /\ WsUnchanged

\* stop()
Stop(c) ==
  /\ sub[c].ws \in LiveSocket => sub[c].old < MaxOld
  /\ sub' = [sub EXCEPT ![c] = StopSub(sub[c])]
  /\ Seen
  /\ last' = Ran("stop", StreamNo(c), 0)
  /\ WsUnchanged

\* the connection of this.ws is lost (or cannot be made): its close event
SocketLost(c) ==
  /\ sub[c].ws \in {"connecting", "open"}
  /\ sub' = [sub EXCEPT ![c] = OnClose([sub[c] EXCEPT !.ws = "closed"])]
  /\ Seen
  /\ last' = Ran("socketLost", StreamNo(c), 0)
  /\ WsUnchanged

\* the socket of this.ws fires error: ws.onerror
SocketErrors(c) ==
  /\ sub[c].ws \in {"connecting", "open"}
  /\ sub' = [sub EXCEPT ![c] = OnError(sub[c])]
  /\ Seen
  /\ last' = Ran("socketErrors", StreamNo(c), 0)
  /\ WsUnchanged

\* the socket of this.ws, closed by onerror, fires close: ws.onclose
CloseCompletes(c) ==
  /\ sub[c].ws = "closing"
  /\ sub' = [sub EXCEPT ![c] = OnClose([sub[c] EXCEPT !.ws = "closed"])]
  /\ Seen
  /\ last' = Ran("closeCompletes", StreamNo(c), 0)
  /\ WsUnchanged

\* a socket the object no longer refers to fires close: its onclose
OldSocketCloses(c) ==
  /\ sub[c].old > sub[c].live
  /\ sub' = [sub EXCEPT ![c] = OnClose([sub[c] EXCEPT !.old = sub[c].old - 1])]
  /\ Seen
  /\ last' = Ran("oldSocketCloses", StreamNo(c), 0)
  /\ WsUnchanged

\* a socket that connect() replaced while it was open loses its connection:
\* its onclose
ReplacedSocketLost(c) ==
  /\ sub[c].live > 0
  /\ sub' = [sub EXCEPT ![c] = OnClose([sub[c] EXCEPT !.old = sub[c].old - 1,
                                                     !.live = sub[c].live - 1])]
  /\ Seen
  /\ last' = Ran("replacedSocketLost", StreamNo(c), 0)
  /\ WsUnchanged

\* a socket the object no longer refers to fires error: its onerror, which
\* closes the socket this.ws refers to now
OldSocketErrors(c) ==
  /\ sub[c].old > 0
  /\ sub' = [sub EXCEPT ![c] = OnError(sub[c])]
  /\ Seen
  /\ last' = Ran("oldSocketErrors", StreamNo(c), 0)
  /\ WsUnchanged

\* the reconnect timer fires, 1500 ms after scheduleReconnect
TimerFires(c) ==
  /\ sub[c].timer
  /\ (~sub[c].stopped /\ sub[c].ws \in LiveSocket) => sub[c].old < MaxOld
  /\ sub' = [sub EXCEPT ![c] = TimerCallback(sub[c])]
  /\ Seen
  /\ last' = Ran("timerFires", StreamNo(c), 0)
  /\ WsUnchanged

NextWs ==
  \/ \E c \in Streams : Start(c)
  \/ \E c \in Streams : Stop(c)
  \/ \E c \in Streams : SocketOpens(c)
  \/ \E c \in Streams : SocketLost(c)
  \/ \E c \in Streams : SocketErrors(c)
  \/ \E c \in Streams : CloseCompletes(c)
  \/ \E c \in Streams : OldSocketCloses(c)
  \/ \E c \in Streams : ReplacedSocketLost(c)
  \/ \E c \in Streams : OldSocketErrors(c)
  \/ \E c \in Streams : TimerFires(c)

\* The browser fires the close event of a socket that close() was called on,
\* and runs the callback of a pending timer.
FairWs ==
  \A c \in Streams :
    /\ WF_vars(CloseCompletes(c))
    /\ WF_vars(OldSocketCloses(c))
    /\ WF_vars(TimerFires(c))

SpecWs == Init /\ [][NextWs]_vars /\ FairWs

(* ------------------------------------------------------------------ *)
(* Paged history: fetchKlinesByTime, one request after another, against *)
(* an exchange that has one-minute bars from time 0 on                  *)
(* ------------------------------------------------------------------ *)
\* limit=1000 of every request, and the length that ends the loop
PageLimit == 1000
\* the responses of one call that may repeat the first response
MaxStale == 2

\* mapArrayToKline of the i-th one-minute bar of the exchange (i from 0)
PagedBar(i) ==
  [openTime |-> i * MinuteMs, open |-> 10, high |-> 10, low |-> 10,
   close |-> 10, volume |-> 1, closeTime |-> (i + 1) * MinuteMs - 1,
   numberOfTrades |-> 1]

\* the response to startTime, endTime, limit=1000 of an exchange that has
\* the bars 0 .. listed - 1: the bars with startTime <= openTime <= endTime,
\* oldest first, at most 1000 of them
ServerPage(startTime, endTime, listed) ==
  LET first == (startTime + MinuteMs - 1) \div MinuteMs
      lastBar == Min(listed - 1, endTime \div MinuteMs)
      n == Max(0, Min(PageLimit, lastBar - first + 1))
  IN [k \in 1..n |-> PagedBar(first + k - 1)]

\* a variant of NextCursor without the cursor + 1 floor
NextCursorNoFloor(cursor, mapped) == mapped[Len(mapped)].closeTime + 1

\* cursor = Math.max(cursor + 1, last.closeTime + 1)
NextCursor(cursor, mapped) ==
  Max(cursor + 1, mapped[Len(mapped)].closeTime + 1)

\* the test of the while loop: the next request is sent, or all is returned
LoopTest(f) ==
  IF f.cursor < f.endMs
  THEN [f EXCEPT !.pc = "waiting", !.reqs = Append(@, f.cursor)]
  ELSE [f EXCEPT !.pc = "done"]

\* the body of the loop after the response chunk arrived
LoopBody(f, chunk) ==
  LET got == [f EXCEPT !.pages = Append(@, chunk)]
  IN IF Len(chunk) = 0
     THEN [got EXCEPT !.pc = "done"]
     ELSE LET adv == [got EXCEPT !.all = @ \o chunk,
                                 !.cursor = NextCursor(f.cursor, chunk)]
          IN IF Len(chunk) < PageLimit
             THEN [adv EXCEPT !.pc = "done"]
             ELSE LoopTest(adv)

\* what the calls of fetchKlinesByTime leave alone
FetchUnchanged ==
  UNCHANGED <<data, follow, viewVars, yVars, dragVars, resizeVars, yOps, rt,
              listeners, interval, sub, trades, agg, now, msgs, older, plot>>

\* the ranges of the Go button (to > from), in minutes, and the numbers of
\* bars the exchange has
FetchFrom == {0, MinuteMs \div 2}
FetchTo == {MinuteMs * 3, MinuteMs * (PageLimit - 1), MinuteMs * PageLimit,
            MinuteMs * (2 * PageLimit + 300)}
FetchListed == {0, 3, PageLimit, PageLimit + 1, 2 * PageLimit,
                2 * PageLimit + 200}

\* fetchKlinesByTime(market, symbol, interval, startTimeMs, endTimeMs) is
\* called and runs to its first await
FetchKlinesByTime(startTimeMs, endTimeMs, listed) ==
  /\ fetch.pc # "waiting"
  /\ startTimeMs < endTimeMs
  /\ fetch' = LoopTest([NoFetch EXCEPT !.cursor = startTimeMs,
                                       !.endMs = endTimeMs,
                                       !.listed = listed,
                                       !.interval = interval])
  /\ Seen
  /\ last' = Ran("fetchKlinesByTime", startTimeMs, endTimeMs)
  /\ FetchUnchanged

\* the response to the pending request arrives with res.ok
PageArrives ==
  /\ fetch.pc = "waiting"
  /\ fetch' = LoopBody(fetch, ServerPage(fetch.cursor, fetch.endMs,
                                         fetch.listed))
  /\ Seen
  /\ last' = Ran("pageArrives", 0, 0)
  /\ FetchUnchanged

\* the response to a later request repeats the response to the first one
\* (a cache between the page and the exchange)
StalePageArrives ==
  /\ fetch.pc = "waiting"
  /\ Len(fetch.reqs) > 1
  /\ fetch.stale < MaxStale
  /\ fetch' = LoopBody([fetch EXCEPT !.stale = @ + 1],
                       ServerPage(fetch.reqs[1], fetch.endMs, fetch.listed))
  /\ Seen
  /\ last' = Ran("stalePageArrives", 0, 0)
  /\ FetchUnchanged

\* the response arrives with !res.ok: the call throws
RequestFails ==
  /\ fetch.pc = "waiting"
  /\ fetch' = [fetch EXCEPT !.pc = "failed"]
  /\ Seen
  /\ last' = Ran("requestFails", 0, 0)
  /\ FetchUnchanged

\* the pending request is answered
Answered == PageArrives \/ StalePageArrives \/ RequestFails

NextFetch ==
  \/ \E s \in FetchFrom, e \in FetchTo, n \in FetchListed :
       FetchKlinesByTime(s, e, n)
  \/ PageArrives
  \/ StalePageArrives
  \/ RequestFails

\* fetch() settles: every request is answered
SpecFetch == Init /\ [][NextFetch]_vars /\ WF_vars(Answered)

(* ------------------------------------------------------------------ *)
(* Loads in flight: the "Go" and "load older" handlers of App across    *)
(* their awaits, with the interval select and the history effect        *)
(* ------------------------------------------------------------------ *)
\* wsRef.current?.stop() and aggWsRef.current?.stop(): an object that was
\* never started is the ref's initial null
StopRefs(subs) ==
  [c \in Streams |-> IF subs[c] = NewSub THEN subs[c] ELSE StopSub(subs[c])]

\* the one-minute bars of the exchange and of the range of the "Go" clicks
GoBars == 3
\* the clicks on "load older" in one run
MaxOlderClicks == 2

\* "Go" with a range to > from under an interval other than "1s": the
\* handler runs to its await of fetchKlinesByTime
GoClicked ==
  /\ interval # "1s"
  /\ fetch.pc \in {"idle", "done", "failed"}
  /\ fetch.pc = "idle" \/ fetch.given
  /\ FetchKlinesByTime(0, MinuteMs * GoBars, GoBars)

\* the await of the "Go" handler resumes: setData(kl) when the call
\* returned, setError when it threw; then setFollow(false) and the stops
GoResolves ==
  /\ fetch.pc \in {"done", "failed"}
  /\ ~fetch.given
  /\ fetch' = [fetch EXCEPT !.given = TRUE]
  /\ IF fetch.pc = "done"
     THEN Rerender(fetch.all, TRUE, FALSE)
     ELSE Rerender(data, FALSE, FALSE)
  /\ sub' = StopRefs(sub)
  /\ last' = Ran("goResolves", IF fetch.pc = "done" THEN 1 ELSE 0,
                 IF fetch.interval = interval THEN 1 ELSE 0)
  /\ UNCHANGED <<yVars, dragVars, resizeVars, yOps, rt, interval, trades,
                 agg, now, msgs, older>>

\* "load older" (shown when interval is "1s", disabled while a request is
\* in progress): the handler runs to its await of fetchAggTradesRange
OlderClicked ==
  /\ interval = "1s"
  /\ ~older.busy
  /\ Len(data) > 0
  /\ Len(data) <= MaxOlderLen
  /\ IsNum(data[1].openTime)
  /\ older.n < MaxOlderClicks
  /\ older' = [busy |-> TRUE, interval |-> interval,
               first |-> data[1].openTime, n |-> older.n + 1]
  /\ Seen
  /\ last' = Ran("olderClicked", 0, 0)
  /\ UNCHANGED <<data, follow, viewVars, yVars, dragVars, resizeVars, yOps,
                 rt, listeners, interval, sub, trades, agg, now, msgs, fetch,
                 plot>>

\* the await of "load older" resumes with trades in the n seconds before
\* first: setData(prev => older.concat(prev))
OlderResolves(n) ==
  /\ older.busy
  /\ older' = [older EXCEPT !.busy = FALSE]
  /\ Rerender(LiveHistory("1s", n, older.first - 1) \o data, TRUE, follow)
  /\ last' = Ran("olderResolves", IF n > 0 THEN 1 ELSE 0,
                 IF older.interval = interval THEN 1 ELSE 0)
  /\ UNCHANGED <<yVars, dragVars, resizeVars, yOps, rt, interval, sub,
                 trades, agg, now, msgs, fetch>>

\* the numbers of one-second bars a "load older" request returns
OlderLens == {0, 2}

NextLoads ==
  \/ \E iv \in LiveIntervals : SetInterval(iv)
  \/ \E n \in LiveLoadLens(interval) : HistoryLoaded(n)
  \/ GoClicked
  \/ PageArrives
  \/ RequestFails
  \/ GoResolves
  \/ OlderClicked
  \/ \E n \in OlderLens : OlderResolves(n)

SpecLoads == InitLiveRun /\ [][NextLoads]_vars

(* ------------------------------------------------------------------ *)
(* Scrolled back: the kline stream appends to a sequence of 1999 bars   *)
(* while the user drags the window away from its end                    *)
(* ------------------------------------------------------------------ *)
\* a drag from the left of the plot to its right; the user starts one
\* while the window ends fewer than MaxScroll bars before the end
ScrollDownAt == {<<100, 233>>}
ScrollMoveTo == {<<820, 233>>}
MaxScroll == 20

NextScroll ==
  \/ SocketOpens("kline")
  \/ \E d \in TimeSteps : \E m \in KlineMsgs(now + d) : KlineMessage(m, now + d)
  \/ \E p \in ScrollDownAt :
       /\ Len(data) - (startIndex + visibleCount) < MaxScroll
       /\ HandleMouseDown(p[1], p[2])
  \/ \E p \in ScrollMoveTo : HandleMouseMove(p[1], p[2])
  \/ HandleMouseUp

SpecScroll == InitLiveRun /\ [][NextScroll]_vars

(* ------------------------------------------------------------------ *)
(* Properties                                                           *)
(* ------------------------------------------------------------------ *)
\* the handlers after which React renders CandlesCanvas again
RenderOps == {"setData", "klineUpdate", "toggleFollow", "mouseDown"}

\* the bar index under the anchor pixel of the round trip, in this state
IdxNow == IdxAtAnchor(startIndex, visibleCount, ZoomAnchor(rt.x))

C2_Original ==
  [][last'.op \in RenderOps =>
       IF Len(data') # Len(data)
       THEN (follow' \/ startIndex + visibleCount >= Len(data') - 1)
              => startIndex' = Max(0, Len(data') - visibleCount')
       ELSE startIndex' = startIndex]_vars

\* C2: a render that changes the length or the follow flag, with the follow
\* flag set or the right edge at or within one bar of the length L of the
\* render, leaves startIndex = max(0, L - visibleCount); a render that
\* changes neither leaves startIndex as it was.
C2_FollowRule ==
  [][last'.op \in RenderOps =>
       IF Len(data') # Len(data) \/ follow' # follow
       THEN (follow' \/ startIndex + visibleCount >= Len(data') - 1)
              => startIndex' = Max(0, Len(data') - visibleCount')
       ELSE startIndex' = startIndex]_vars

\* with the follow flag off, a new bar has moved a window that stood at the
\* end of the sequence to the new end
C2_Witness ==
  /\ last.op = "klineUpdate"
  /\ last.a = 1
  /\ ~follow
  /\ startIndex > 0
  /\ startIndex = Len(data) - visibleCount

\* C3: with the follow flag off and the right edge more than one bar before
\* the end, a step that makes the sequence longer changes neither startIndex
\* nor visibleCount (so that any number of such steps leaves them unchanged).
C3_ManualViewportKept ==
  [][(/\ ~follow
      /\ startIndex + visibleCount < Len(data) - 1
      /\ Len(data') > Len(data))
       => (startIndex' = startIndex /\ visibleCount' = visibleCount)]_vars

\* a new bar arrived while the window stood more than one bar before the end
C3_Witness ==
  /\ last.op = "klineUpdate"
  /\ last.a = 1
  /\ ~follow
  /\ startIndex + visibleCount < Len(data) - 2

\* C4 as the specification states it: in the state in which the sequence is
\* non-empty for the first time, visibleCount = clamp(L, 20, 120),
\* startIndex = max(0, L - visibleCount) and auto = true.
C4_Original ==
  (~hadData /\ Len(data) > 0) =>
    /\ visibleCount = InitialVisible(Len(data))
    /\ startIndex = Max(0, Len(data) - visibleCount)
    /\ autoY = TRUE

\* C5: after a zoom that the final clamp left as computed, the bar index
\* under the anchor pixel differs by at most 1 from the index under it before
\* the zoom.
C5_AnchorStationary ==
  (rt.phase > 0 /\ rt.freeLast) => Abs(IdxNow - rt.idxPrev) <= 1

\* a zoom changed the visible count and moved the index under the anchor by
\* one bar
C5_Witness ==
  /\ rt.phase = 1
  /\ rt.freeLast
  /\ visibleCount # rt.vc0
  /\ IdxNow = rt.idxPrev + 1

\* C6 as the specification states it: after zoom(s, x) and zoom(1/s, x) the
\* visible count is within 1 of the count before, and the bar index under x
\* within 1 of the index before.
C6_Original ==
  rt.phase = 2 =>
    /\ Abs(visibleCount - rt.vc0) <= 1
    /\ Abs(IdxNow - rt.idx0) <= 1

\* C6: after zoom(s, x) and zoom(1/s, x), s a scale factor of the callers,
\* neither zoom changed by a limit or a clamp, the visible count is within 1
\* of the count before and the bar index under x is the index before plus 0,
\* 1 or 2.
C6_RoundTrip ==
  (rt.phase = 2 /\ rt.freeAll) =>
    /\ Abs(visibleCount - rt.vc0) <= 1
    /\ IdxNow - rt.idx0 \in 0..2

\* a round trip no limit touched moved the index under x by two bars
C6_Witness ==
  /\ rt.phase = 2
  /\ rt.freeAll
  /\ visibleCount = rt.vc0
  /\ IdxNow = rt.idx0 + 2

\* C7 as the specification states it: after setRangeByTime(startMs, endMs) on
\* a non-empty sequence with endMs > startMs, startIndex is the first index
\* whose openTime >= startMs and visibleCount the number of bars with
\* openTime in [startMs, endMs].
C7_Original ==
  [][(last'.op = "setRangeByTime" /\ Len(data) > 0 /\ last'.b > last'.a) =>
       LET firstIdx ==
             Cardinality({i \in 1..Len(data) : data[i].openTime < last'.a})
           inRange ==
             Cardinality({i \in 1..Len(data) :
                            /\ last'.a <= data[i].openTime
                            /\ data[i].openTime <= last'.b})
       IN /\ startIndex' = firstIdx
          /\ visibleCount' = inRange]_vars

\* C7: after setRangeByTime(startMs, endMs) on a non-empty sequence with
\* endMs > startMs, visibleCount is max(10, number of bars with openTime in
\* [startMs, endMs]) and startIndex is min(first index whose openTime >=
\* startMs, max(0, L - visibleCount)).
C7_RangeResult ==
  [][(last'.op = "setRangeByTime" /\ Len(data) > 0 /\ last'.b > last'.a) =>
       LET firstIdx ==
             Cardinality({i \in 1..Len(data) : data[i].openTime < last'.a})
           inRange ==
             Cardinality({i \in 1..Len(data) :
                            /\ last'.a <= data[i].openTime
                            /\ data[i].openTime <= last'.b})
       IN /\ visibleCount' = Max(MinVisible, inRange)
          /\ startIndex' =
               Min(firstIdx, Max(0, Len(data) - visibleCount'))]_vars

\* setRangeByTime(150, 350) on the open times 100, 200, 300, 400 has written
\* startIndex = 0 and visibleCount = 10
C7_Witness ==
  /\ last.op = "setRangeByTime"
  /\ last.a = 150
  /\ last.b = 350
  /\ Len(data) = 4
  /\ startIndex = 0
  /\ visibleCount = MinVisible

\* C8: after a setRangeByTime(startMs, endMs) on a non-empty sequence with
\* endMs > startMs, every bar whose openTime lies in [startMs, endMs] has its
\* index in [startIndex, startIndex + visibleCount).
C8_RangeCovered ==
  [][(last'.op = "setRangeByTime" /\ Len(data) > 0 /\ last'.b > last'.a) =>
       \A i \in 1..Len(data) :
         (last'.a <= data[i].openTime /\ data[i].openTime <= last'.b) =>
           (startIndex' <= i - 1 /\ i - 1 < startIndex' + visibleCount')]_vars

\* setRangeByTime(200, 1500) on 13 bars shows the twelve bars 200 .. 1500
C8_Witness ==
  /\ last.op = "setRangeByTime"
  /\ last.a = 200
  /\ last.b = 1500
  /\ Len(data) = 13
  /\ startIndex = 1
  /\ visibleCount = 12

\* C9: a setRangeByTime on an empty sequence, or with endMs <= startMs,
\* changes none of startIndex, visibleCount, auto, min and max (the handler
\* returns before it reads a bar, so there is nothing that could raise).
C9_RangeNoOp ==
  [][(last'.op = "setRangeByTime"
      /\ (Len(data) = 0 \/ last'.b <= last'.a))
       => UNCHANGED <<startIndex, visibleCount, autoY, yMin, yMax>>]_vars

\* setRangeByTime with endMs <= startMs ran on a chart with bars, a window
\* away from the start and a Y-range set by hand
C9_Witness ==
  /\ last.op = "setRangeByTime"
  /\ last.b <= last.a
  /\ Len(data) > 0
  /\ startIndex > 0
  /\ ~autoY
  /\ yMin # JNull

\* C10: a setRangeByTime(a, b), scrollToEnd, resetView or resetY that follows
\* at once on the same call with the same arguments changes none of
\* startIndex, visibleCount, auto, min and max.
C10_Idempotent ==
  [][last'.rep =>
       UNCHANGED <<startIndex, visibleCount, autoY, yMin, yMax>>]_vars

\* setRangeByTime ran twice in succession with a range that moves the window
C10_Witness ==
  /\ last.rep
  /\ last.op = "setRangeByTime"
  /\ last.b > last.a
  /\ Len(data) > MinVisible
  /\ startIndex > 0

(* ------------------------------------------------------------------ *)
(* C11.  After a live update on either path (a kline message, a trade   *)
(* message) the sequence holds at most 2000 bars.                       *)
(* The trade path appends without a limit: this is the statement as     *)
(* made, which a run of the 1-second stream violates.                   *)
(* ------------------------------------------------------------------ *)
LiveOps == {"klineMessage", "tradeMessage"}

C11_Original ==
  (last.op \in LiveOps /\ last.a = 1) => Len(data) <= MaxBuffer

(* ------------------------------------------------------------------ *)
(* C12.  In every reachable state the bars are in strictly ascending    *)
(* order of openTime, with no duplicates.                               *)
(* The kline updater appends every bar whose openTime differs from the  *)
(* last one, and the sequence of the interval left is still there when  *)
(* the stream of the new interval delivers: this is the statement as    *)
(* made, which such a run violates.                                     *)
(* ------------------------------------------------------------------ *)
Ascending(d) ==
  \A i \in 1..(Len(d) - 1) : NumGt(d[i + 1].openTime, d[i].openTime)

C12_Original == Ascending(data)

(* ------------------------------------------------------------------ *)
(* C13.  onUserPan fires once for each gesture of the user: a pointer   *)
(* drag (pan or Y resize) and a wheel zoom.  App passes                 *)
(* () => setFollow(false), so after the handler of a gesture the follow *)
(* flag is off.                                                         *)
(* handleWheel never calls onUserPan: this is the statement as made,    *)
(* which a wheel zoom of a following chart violates.                    *)
(* ------------------------------------------------------------------ *)
GestureOps == {"mouseDown", "wheelZoom"}

C13_Original == last.op \in GestureOps => ~follow

(* ------------------------------------------------------------------ *)
(* C14.  A pointer-down at x >= width - paddingRight (840), the right   *)
(* price-axis area, with a non-empty visible slice starts a Y resize    *)
(* (isDragging and isResizingY set).  Any other pointer-down starts a   *)
(* drag and leaves isResizingY as it was: a pan when no resize is in    *)
(* progress.                                                            *)
(* C14_Original is the statement as made, with the area starting at     *)
(* plotWidth - rightPadding (770).                                      *)
(* ------------------------------------------------------------------ *)
C14_Original ==
  last.op = "mouseDown" =>
    /\ isDragging
    /\ isResizingY =
         (/\ lastX >= PlotWidth - PADDING_RIGHT
          /\ Len(ViewData(data, startIndex, visibleCount)) > 0)

C14_PointerDown ==
  [][last'.op = "mouseDown" =>
       /\ isDragging'
       /\ IF /\ lastX' >= Width - PADDING_RIGHT
             /\ Len(ViewData(data, startIndex, visibleCount)) > 0
          THEN isResizingY'
          ELSE isResizingY' = isResizingY]_vars

\* a pointer-down between x = 770 and x = 840 over a loaded chart started a
\* pan
C14_Witness ==
  /\ last.op = "mouseDown"
  /\ lastX >= PlotWidth - PADDING_RIGHT
  /\ lastX < Width - PADDING_RIGHT
  /\ Len(data) > 0
  /\ isDragging
  /\ ~isResizingY

(* ------------------------------------------------------------------ *)
(* C15.  The vertical gestures never zoom or pan horizontally.  A wheel *)
(* event with altKey sets autoY to false and leaves startIndex and      *)
(* visibleCount unchanged.  A pointer-down that starts a Y resize sets  *)
(* autoY to false and leaves visibleCount unchanged; its onUserPan      *)
(* turns follow off, and when follow was on and the window stood at the *)
(* end of the sequence the follow effect sets startIndex to             *)
(* max(0, L - visibleCount), otherwise startIndex is unchanged.  A      *)
(* pointer move of a Y resize leaves autoY, startIndex and visibleCount *)
(* unchanged.                                                           *)
(* C15_Original is the statement as made: every event of the two        *)
(* gestures sets autoY to false and leaves the viewport unchanged.      *)
(* ------------------------------------------------------------------ *)
\* the step is a wheel event with altKey
AltWheelStep == last'.op = "wheelY"
\* the step is a pointer-down that starts a Y resize
ResizeDownStep == last'.op = "mouseDown" /\ StartsResize(lastX')
\* the step is a pointer move of a Y resize
ResizeMoveStep == last'.op = "mouseMove" /\ isDragging /\ isResizingY

C15_Original ==
  [][(AltWheelStep \/ ResizeDownStep \/ ResizeMoveStep)
       => (autoY' = FALSE /\ UNCHANGED viewVars)]_vars

C15_VerticalGestures ==
  [][/\ AltWheelStep => (autoY' = FALSE /\ UNCHANGED viewVars)
     /\ ResizeDownStep =>
          /\ autoY' = FALSE
          /\ visibleCount' = visibleCount
          /\ startIndex' =
               IF /\ follow
                  /\ startIndex + visibleCount
                       >= Max(visibleCount, Len(data) - 1)
               THEN Max(0, Len(data) - visibleCount)
               ELSE startIndex
     /\ ResizeMoveStep => UNCHANGED <<autoY, viewVars>>]_vars

\* a pointer move of a Y resize changed the Y-range of a chart that was
\* zoomed before
C15_Witness ==
  /\ last.op = "mouseMove"
  /\ isDragging
  /\ isResizingY
  /\ ~autoY
  /\ yMin # JNull
  /\ Len(data) > 0
  /\ visibleCount > MinVisible

(* ------------------------------------------------------------------ *)
(* C16.  When the connection of a subscription that is not stopped      *)
(* closes or errors, a reconnect is scheduled (the timer is pending     *)
(* once the socket has closed) and a new connection attempt follows,    *)
(* unless stop() is called first; this holds after every loss, however  *)
(* many came before.                                                    *)
(* ------------------------------------------------------------------ *)
Lost(c) == ~sub[c].stopped /\ sub[c].ws \in {"closing", "closed"}
Reconnecting(c) == sub[c].stopped \/ sub[c].ws = "connecting"

C16_Reconnects ==
  /\ [](\A c \in Streams :
          (~sub[c].stopped /\ sub[c].ws = "closed") => sub[c].timer)
  /\ Lost("kline") ~> Reconnecting("kline")
  /\ Lost("trade") ~> Reconnecting("trade")

\* the connection of a subscription is attempted again after the timer
\* has reconnected it MaxReconnects times and it was lost each time
C16_Witness ==
  \E c \in Streams :
    /\ sub[c].n = MaxReconnects
    /\ ~sub[c].stopped
    /\ sub[c].ws = "closed"
    /\ sub[c].timer

(* ------------------------------------------------------------------ *)
(* C17.  While a subscription is stopped (from stop() until the next    *)
(* start()) it has no socket and no pending reconnect timer, whatever   *)
(* close, error and timer events arrive.                                *)
(* ------------------------------------------------------------------ *)
C17_StoppedStaysIdle ==
  \A c \in Streams :
    sub[c].stopped => (sub[c].ws = "none" /\ ~sub[c].timer)

\* the close event of a socket arrived at a stopped subscription that had
\* been reconnected by the timer before
C17_Witness ==
  \E c \in Streams :
    /\ sub[c].stopped
    /\ sub[c].n > 0
    /\ last.op = "oldSocketCloses"
    /\ last.a = StreamNo(c)

(* ------------------------------------------------------------------ *)
(* C18.  A malformed live message (text that is not JSON, or JSON       *)
(* without the properties the handler reads) on either stream leaves    *)
(* the bar sequence unchanged.                                          *)
(* The handlers drop text that is not JSON, but the trade handler       *)
(* passes on every JSON object and the kline handler every object with  *)
(* a k: this is the statement as made, which such a message violates.   *)
(* ------------------------------------------------------------------ *)
C18_Original ==
  [][(last'.op \in LiveOps /\ last'.b = 0) => data' = data]_vars

(* ------------------------------------------------------------------ *)
(* C19.  aggregateToOneSecondKlines returns one bar for each distinct   *)
(* second floor(timestamp / 1000) * 1000 of the trades, in ascending    *)
(* order of openTime; a bar's high and low are the extreme prices of    *)
(* its second's trades, its close the price of the last of them         *)
(* (latest timestamp, the later in the list among equals), its volume   *)
(* the sum of their quantities and its numberOfTrades their count; its  *)
(* open is the close of the bar before it, and for the first bar the    *)
(* price of its first trade.  The trades (1000, 10, 1), (1500, 11, 2),  *)
(* (1999, 9, 3) give one bar: openTime 1000, high 11, low 9, close 9,   *)
(* volume 6, numberOfTrades 3.                                          *)
(* ------------------------------------------------------------------ *)
\* the positions in ts of the trades of second s
InSecond(ts, s) == {i \in 1..Len(ts) : (ts[i].timestamp \div 1000) * 1000 = s}

\* position i holds the last (the first) trade of the positions I
IsLastOf(ts, I, i) ==
  /\ i \in I
  /\ \A j \in I : \/ ts[j].timestamp < ts[i].timestamp
                   \/ (ts[j].timestamp = ts[i].timestamp /\ j <= i)
IsFirstOf(ts, I, i) ==
  /\ i \in I
  /\ \A j \in I : \/ ts[j].timestamp > ts[i].timestamp
                   \/ (ts[j].timestamp = ts[i].timestamp /\ j >= i)

RECURSIVE SumOver(_, _)
SumOver(ts, I) ==
  IF I = {} THEN 0
  ELSE LET i == CHOOSE x \in I : TRUE
       IN ts[i].quantity + SumOver(ts, I \ {i})

IsAggregateOf(bars, ts) ==
  /\ {bars[j].openTime : j \in 1..Len(bars)}
       = {(ts[i].timestamp \div 1000) * 1000 : i \in 1..Len(ts)}
  /\ \A j \in 1..(Len(bars) - 1) : bars[j].openTime < bars[j + 1].openTime
  /\ \A j \in 1..Len(bars) :
       LET I == InSecond(ts, bars[j].openTime)
       IN /\ \A i \in I : bars[j].low <= ts[i].price
                            /\ ts[i].price <= bars[j].high
          /\ \E i \in I : ts[i].price = bars[j].high
          /\ \E i \in I : ts[i].price = bars[j].low
          /\ \E i \in I : IsLastOf(ts, I, i) /\ bars[j].close = ts[i].price
          /\ bars[j].volume = SumOver(ts, I)
          /\ bars[j].numberOfTrades = Cardinality(I)
          /\ IF j = 1
             THEN \E i \in I : IsFirstOf(ts, I, i)
                                /\ bars[j].open = ts[i].price
             ELSE bars[j].open = bars[j - 1].close

ExampleTrades == <<Trade(1000, 10, 1), Trade(1500, 11, 2), Trade(1999, 9, 3)>>
ExampleBars ==
  <<[openTime |-> 1000, open |-> 10, high |-> 11, low |-> 9, close |-> 9,
     volume |-> 6, numberOfTrades |-> 3]>>

C19_Aggregation ==
  last.op = "tradesLoaded" =>
    /\ IsAggregateOf(agg, trades)
    /\ trades = ExampleTrades => agg = ExampleBars

\* trades of two seconds were aggregated, given in an order that is not
\* the order of their timestamps
C19_Witness ==
  /\ last.op = "tradesLoaded"
  /\ Len(agg) = 2
  /\ Len(trades) = 3
  /\ trades[1].timestamp > trades[2].timestamp
  /\ SecOf(trades[1]) = SecOf(trades[2])

(* ------------------------------------------------------------------ *)
(* C20.  When the trades are delivered one at a time, in non-decreasing *)
(* order of timestamp, to an empty sequence, the bars of the live merge *)
(* are the bars aggregateToOneSecondKlines returns for the list of all  *)
(* of them (openTime, open, high, low, close, volume, numberOfTrades).  *)
(* ------------------------------------------------------------------ *)
C20_LiveEqualsAggregate ==
  msgs = Len(trades) => data = AggregateToOneSecondKlines(trades)

\* three trades were delivered to an empty sequence: two in one second, at
\* different prices, and one in a later second
C20_Witness ==
  /\ last.op = "tradeDelivered"
  /\ msgs = 3
  /\ Len(trades) = 3
  /\ Len(data) = 2
  /\ data[1].numberOfTrades = 2
  /\ data[1].high > data[1].low
  /\ data[2].open # data[2].close

(* ------------------------------------------------------------------ *)
(* The plotted price range                                              *)
(* ------------------------------------------------------------------ *)
\* the operations of the price-range specification that end with draw()
Drew ==
  \/ last.op \in {"setData", "wheelY", "wheelZoom", "resetY", "resetView"}
  \/ last.op = "mouseMove" /\ isDragging

\* the visible slice, its lowest low and its highest high
Visible == ViewData(data, startIndex, visibleCount)
LowestLow == CHOOSE l \in {Visible[i].low : i \in DOMAIN Visible} :
               \A i \in DOMAIN Visible : l <= Visible[i].low
HighestHigh == CHOOSE h \in {Visible[i].high : i \in DOMAIN Visible} :
                 \A i \in DOMAIN Visible : Visible[i].high <= h

\* [lo - pad, hi + pad], pad = (hi - lo) / 20, or 1 when hi = lo
Padded(lo, hi) ==
  IF hi = lo
  THEN [min |-> JInt(lo - 1), max |-> JInt(hi + 1)]
  ELSE [min |-> JNum(20 * lo - (hi - lo), 20),
        max |-> JNum(20 * hi + (hi - lo), 20)]

\* C21: in auto mode every render plots the range [min(low) - pad,
\* max(high) + pad] of the visible slice, pad being 5% of max(high) -
\* min(low), or 1 when that difference is zero; the highs [10, 12, 9] with
\* the lows [8, 7, 11] give 6.75 and 12.25
C21_AutoRange ==
  /\ (Drew /\ autoY /\ Len(Visible) > 0)
       => plot = Padded(LowestLow, HighestHigh)
  /\ DrawRange(PricedBars(ExampleHighs, ExampleLows), 0, MinVisible, TRUE,
               JNull, JNull)
       = [min |-> JNum(27, 4), max |-> JNum(49, 4)]

\* the example is on the canvas in auto mode after a reset of the Y-range
C21_Witness ==
  /\ last.op = "resetY"
  /\ autoY
  /\ data = PricedBars(ExampleHighs, ExampleLows)
  /\ plot = [min |-> JNum(27, 4), max |-> JNum(49, 4)]

\* a flat slice is drawn with pad = 1
C21_FlatWitness ==
  /\ Drew /\ autoY
  /\ data = FlatBars
  /\ plot = [min |-> JInt(4), max |-> JInt(6)]

(* ------------------------------------------------------------------ *)
(* Event listeners                                                      *)
(* ------------------------------------------------------------------ *)
EventTypes == {"wheel", "mousedown", "mousemove", "mouseup", "mouseleave"}

\* C22: after the teardown of an engine instance (unmount, or the
\* re-registration that a change of data causes) none of its five listeners
\* (wheel, mousedown, mousemove, mouseup, mouseleave) remains attached, and
\* at any time each of the five is attached at most once
C22_Listeners ==
  /\ last.op = "unmount" => listeners = {}
  /\ \A l \in listeners : l.inst = Latest(listeners)
  /\ \A t \in EventTypes : Cardinality({l \in listeners : l.type = t}) <= 1

\* a chart that was torn down with data loaded and is registered again
C22_Witness ==
  /\ last.op = "setData"
  /\ Len(data) > 0
  /\ \A t \in EventTypes : Cardinality({l \in listeners : l.type = t}) = 1
  /\ isDragging

\* the chart after its unmount
C22_Unmounted ==
  /\ last.op = "unmount"
  /\ hadData
  /\ listeners = {}

(* ------------------------------------------------------------------ *)
(* The Y resize drag                                                    *)
(* ------------------------------------------------------------------ *)
\* the latest handler was a pointer move of a Y resize drag
ResizeMoved == isDragging /\ isResizingY /\ last.op = "mouseMove"

\* the width a resize drag gives the range with the pointer at clientY
ResizedWidth(clientY) ==
  JMax(Epsilon,
       JMul(JSub(grabbed.max, grabbed.min), ExpK(clientY - resizeStartMouseY)))

\* C23: during a ResizingY drag the Y-range after a pointer move depends
\* only on the values captured at the drag start (anchor price, initial
\* range, ratioTop) and on the pointer's current Y, so two sequences of
\* moves that end at the same Y give the same (min, max); with the pointer
\* back at its start Y the range is the one captured at the drag start
C23_ResizeByPosition ==
  ResizeMoved =>
    /\ JSub(yMax, yMin) = ResizedWidth(lastMouseY)
    /\ JSub(yMax, resizeAnchorPrice)
         = JMul(resizeAnchorTopRatio, ResizedWidth(lastMouseY))
    /\ resizeInitialRange = JSub(grabbed.max, grabbed.min)
    /\ lastMouseY = resizeStartMouseY
         => yMin = grabbed.min /\ yMax = grabbed.max

\* the pointer of a resize drag is back at its start Y after a move away
\* and a wheel turn, and the range is the captured one
C23_Witness ==
  /\ ResizeMoved
  /\ lastMouseY = resizeStartMouseY
  /\ yOps = MaxYOps
  /\ yMin = grabbed.min /\ yMax = grabbed.max
  /\ grabbed.min.k = "num"

\* the pointer of a resize drag is 223 pixels above its start Y
C23_Away ==
  /\ ResizeMoved
  /\ lastMouseY = resizeStartMouseY - 223
  /\ JSub(yMax, yMin) = JMul(JNum(16, 25), JSub(grabbed.max, grabbed.min))

(* ------------------------------------------------------------------ *)
(* The pan drag                                                         *)
(* ------------------------------------------------------------------ *)
\* a pan drag is in progress and no clamp has bound since its pointer-down
PanFree == isDragging /\ ~isResizingY /\ pan.rec /\ pan.free

\* C24 as stated: during a pan drag in which no clamp binds, the net change
\* of startIndex is round(-totalDx / (candleWidth + gap)) for the total
\* displacement of the drag, however the displacement is split into
\* pointer-move events
C24_Original ==
  PanFree =>
    startIndex - pan.start = DeltaCandles(lastX - pan.x, visibleCount)

(* ------------------------------------------------------------------ *)
(* The wheel and the vertical pan against the plotted range             *)
(* ------------------------------------------------------------------ *)
\* the price that the plotted range pl puts at the pixel row y of the
\* canvas (the inverse of toY)
PriceAtRow(pl, y) ==
  JSub(pl.max,
       JMul(JDiv(JInt(y - PADDING_TOP), JInt(PlotHeight)),
            JSub(pl.max, pl.min)))

\* the width of the plotted range pl
PlotSpan(pl) == JSub(pl.max, pl.min)

\* a range is on the canvas
Plotted == plot.min.k = "num" /\ plot.max.k = "num"

\* C25 as stated: a wheel event with the secondary modifier scales the
\* displayed price range by 1.15 or by 0.85 and keeps the price at the
\* cursor's pixel row, also when it is the first event after auto mode
C25_Original ==
  [][(AltWheelStep /\ Plotted)
       => /\ PriceAtRow(plot', lastMouseY') = PriceAtRow(plot, lastMouseY')
          /\ PlotSpan(plot') \in {JMul(JNum(23, 20), PlotSpan(plot)),
                                  JMul(JNum(17, 20), PlotSpan(plot))}]_vars

\* the vertical distance handleMouseMove computes for the step
StepDy == lastMouseY' - (IF lastMouseY # 0 THEN lastMouseY ELSE lastMouseY')

\* the step is a pointer move of a pan drag with dy # 0
PanYStep ==
  last'.op = "mouseMove" /\ isDragging /\ ~isResizingY /\ StepDy # 0

\* C26 as stated: a pointer move with dy # 0 during Panning sets auto =
\* false and shifts min and max by the same deltaPrice = dy * (range /
\* plotHeight), so the displayed range is as wide after the move as before
\* it, also on the first move after auto mode
C26_Original ==
  [][(PanYStep /\ Plotted)
       => /\ autoY' = FALSE
          /\ PlotSpan(plot') = PlotSpan(plot)
          /\ JSub(plot'.min, plot.min)
               = JMul(JInt(StepDy), JDiv(PlotSpan(plot), JInt(PlotHeight)))
          /\ JSub(plot'.max, plot.max) = JSub(plot'.min, plot.min)]_vars

(* ------------------------------------------------------------------ *)
(* The stored Y-range                                                   *)
(* ------------------------------------------------------------------ *)
\* C27 as stated: whenever the Y-range is manual with both bounds stored,
\* max > min and both bounds are finite, after every sequence of wheel,
\* drag and reset operations, also over an empty sequence
C27_Original ==
  (~autoY /\ yMin # JNull /\ yMax # JNull)
    => /\ yMin.k = "num"
       /\ yMax.k = "num"
       /\ JLt(yMin, yMax)

(* ------------------------------------------------------------------ *)
(* Repeated zoom commands                                               *)
(* ------------------------------------------------------------------ *)
ZoomInStep == last'.op = "zoomIn"
ZoomOutStep == last'.op = "zoomOut"

\* the visible count that repeated calls of zoomOut end at
WidestView == Min(Len(data), MaxVisible)

C28_Narrowest ==
  /\ last.op = "zoomIn"
  /\ Len(data) = 47
  /\ visibleCount = MinVisible

(* ------------------------------------------------------------------ *)
(* Paged history                                                        *)
(* ------------------------------------------------------------------ *)
\* closeTime of the last bar of a page that has bars
LastClose(page) == page[Len(page)].closeTime

\* the pages one after another
RECURSIVE Flatten(_)
Flatten(pages) ==
  IF pages = << >> THEN << >> ELSE Head(pages) \o Flatten(Tail(pages))

\* every request starts before endMs and after the request before it, one
\* past the closeTime of the last bar received when that bar does not close
\* before the request's own start; only a full page is followed by a request
CursorAdvances ==
  /\ \A i \in 1..Len(fetch.reqs) : fetch.reqs[i] < fetch.endMs
  /\ \A i \in 2..Len(fetch.reqs) :
       /\ fetch.reqs[i] > fetch.reqs[i - 1]
       /\ Len(fetch.pages[i - 1]) = PageLimit
       /\ LastClose(fetch.pages[i - 1]) >= fetch.reqs[i - 1]
            => fetch.reqs[i] = LastClose(fetch.pages[i - 1]) + 1

\* the call has returned exactly when the last page was empty, or shorter
\* than 1000 bars, or moved the cursor to endMs or beyond; until then one
\* request is pending, at the cursor
StopsWhenSaid ==
  LET np == Len(fetch.pages)
      nr == Len(fetch.reqs)
  IN /\ fetch.pc = "done" =>
          /\ np = nr
          /\ np > 0
          /\ \/ Len(fetch.pages[np]) < PageLimit
             \/ fetch.cursor >= fetch.endMs
     /\ fetch.pc \in {"waiting", "failed"} =>
          /\ nr = np + 1
          /\ fetch.cursor = fetch.reqs[nr]
          /\ fetch.cursor < fetch.endMs
          /\ np > 0 => Len(fetch.pages[np]) = PageLimit

(* C29.  fetchKlinesByTime terminates: every request that is answered   *)
(* is followed by the return (or the throw on a failed response) after  *)
(* finitely many more.  Each request's startTime is below endMs and     *)
(* strictly greater than the one before it, namely closeTime + 1 of the *)
(* last bar received whenever that bar closes at or after the request's *)
(* startTime; the bars returned are the pages in order, one after       *)
(* another; and the loop stops when a page is empty, has fewer than     *)
(* 1000 bars, or the cursor has reached endMs.                          *)
C29_Paging ==
  /\ [](CursorAdvances /\ StopsWhenSaid /\ fetch.all = Flatten(fetch.pages))
  /\ (fetch.pc = "waiting") ~> (fetch.pc \in {"done", "failed"})

\* three pages, the last one short: 1000 + 1000 + 200 bars returned
C29_Witness ==
  /\ fetch.pc = "done"
  /\ Len(fetch.pages) = 3
  /\ Len(fetch.pages[3]) = 200
  /\ fetch.stale = 0
  /\ Len(fetch.all) = 2 * PageLimit + 200

\* a full page whose last bar closes at endMs or later ends the loop
C29_ReachedEnd ==
  /\ fetch.pc = "done"
  /\ fetch.pages # << >>
  /\ Len(fetch.pages[Len(fetch.pages)]) = PageLimit
  /\ fetch.cursor >= fetch.endMs

\* an empty page ends the loop after a full one
C29_EmptyPage ==
  /\ fetch.pc = "done"
  /\ Len(fetch.pages) = 2
  /\ fetch.pages[2] = << >>

\* a repeated page moved the cursor by one millisecond only
C29_StalePage ==
  /\ fetch.stale > 0
  /\ Len(fetch.reqs) > 2
  /\ fetch.reqs[3] = fetch.reqs[2] + 1

(* ------------------------------------------------------------------ *)
(* One connection per subscription object                               *)
(* ------------------------------------------------------------------ *)
\* the sockets of the object that are open and call its onmessage: the one
\* this.ws refers to, and those connect() replaced while they were open
OpenConnections(s) == (IF s.ws = "open" THEN 1 ELSE 0) + s.live

\* the reconnect timers of the object that are pending
PendingTimers(s) == IF s.timer THEN 1 ELSE 0

(* C30.  In every interleaving of start(), stop(), close, error and     *)
(* timer events, each of the two subscription objects has at most one   *)
(* open connection delivering to its handler and at most one pending    *)
(* reconnect timer.                                                     *)
(* After stop() and start(), the close event of the socket that stop()  *)
(* closed finds stopped = false and schedules a reconnect; its timer    *)
(* replaces the open socket without closing it: this is the statement   *)
(* as made, which such a run violates.                                  *)
C30_Original ==
  \A c \in Streams :
    /\ OpenConnections(sub[c]) <= 1
    /\ PendingTimers(sub[c]) <= 1

(* ------------------------------------------------------------------ *)
(* Loads that outlive the selection                                     *)
(* ------------------------------------------------------------------ *)
\* the handler that ran last resumed a load and wrote its bars into data
WroteLoad == last.op \in {"goResolves", "olderResolves"} /\ last.a = 1

(* C31.  The bars of a load ("Go", "load older") are written into the   *)
(* sequence only when the interval selected is still the one the load   *)
(* was started under.                                                   *)
(* The history effect drops the result of a load it cancelled, but the  *)
(* two handlers call setData after their await whatever was selected    *)
(* meanwhile: this is the statement as made, which an interval change   *)
(* during either load violates.                                         *)
C31_Original == WroteLoad => last.b = 1

(* ------------------------------------------------------------------ *)
(* The candles of a draw                                                *)
(* ------------------------------------------------------------------ *)
\* draw(): candleWidth for the visible count it computed
CandleWidth(visible) == Max(1, FloorDiv(PlotWidth, visible) - CandleGap)

\* draw(): visibleCount, clamped once more to the sequence
DrawnCount == Max(MinVisible, Min(Len(data), visibleCount))

\* draw(): x of the candle at position idx of viewData, and the right edge
\* of its body
CandleX(idx) == PADDING_LEFT + idx * (CandleWidth(DrawnCount) + CandleGap)
CandleRight(idx) == CandleX(idx) + CandleWidth(DrawnCount)

\* the positions of viewData in the draw of the current refs
DrawnPositions ==
  0 .. (Len(ViewData(data, startIndex, visibleCount)) - 1)

(* C32.  At every draw, every candle of the visible slice lies inside   *)
(* the plot horizontally: leftPad + i * (candleWidth + 2) + candleWidth *)
(* is at most width - rightPad (840) for each position i.               *)
(* candleWidth is at least 1, so the candles take 3 pixels each however *)
(* many are visible: this is the statement as made, which a draw of 278 *)
(* bars or more violates.                                               *)
C32_Original ==
  Len(data) > 0 =>
    \A idx \in DrawnPositions : CandleRight(idx) <= Width - PADDING_RIGHT

(* ------------------------------------------------------------------ *)
(* The window under live appends                                        *)
(* ------------------------------------------------------------------ *)
\* the openTime of the bars draw() shows, left to right
Shown ==
  LET view == ViewData(data, startIndex, visibleCount)
  IN [i \in 1..Len(view) |-> view[i].openTime]

\* the step is a well-formed kline message whose bar is a new one
Appended ==
  /\ last'.op = "klineMessage"
  /\ last'.a = 1
  /\ last'.b = 1
  /\ Len(data) > 0
  /\ data'[Len(data')].openTime # data[Len(data)].openTime

\* follow is off and the window ends more than one bar before the end
ScrolledBack == ~follow /\ startIndex + visibleCount < Len(data) - 1

(* C33.  With follow off and the window ending more than one bar before *)
(* the end of the sequence, a live append leaves the bars shown in the  *)
(* window the same (by openTime), also when it drops the oldest of 2000 *)
(* bars.                                                                *)
(* startIndex is an index and stays as it is when the updater shifts    *)
(* the sequence: this is the statement as made, which an append to a    *)
(* full buffer violates.                                                *)
C33_Original == [][(Appended /\ ScrolledBack) => Shown' = Shown]_vars

====
